---------------------------- MODULE Spec2Model ----------------------------
(***************************************************************************)
(* A model of the rate limiting core and the retry engine of the Azure /   *)
(* OpenAI Responses API client:                                            *)
(*   core/src/rate_limiter.rs        TokenBucket, CircuitBreaker,          *)
(*                                   AdaptiveRateLimiter                   *)
(*   core/src/azure_rate_limiter.rs  AzureOpenAIRateLimiter (coordinator)  *)
(*   codex-client/src/retry.rs       RetryOn, run_with_retry, backoff,     *)
(*                                   parse_retry_after_headers,            *)
(*                                   compute_retry_delay                   *)
(*   codex-api/src/error.rs          From<TransportError> for ApiError     *)
(*   codex-api/src/azure.rs          is_azure_base_url,                    *)
(*                                   attach_item_ids_to_json               *)
(*   codex-api/src/provider.rs       Provider::url_for_path                *)
(*   core/src/azure.rs               build_azure_url, get_response,        *)
(*                                   get_response_input_items,             *)
(*                                   delete_response, parse_azure_error    *)
(*   core/src/rate_limiter.rs        PriorityRequestQueue                  *)
(*   core/src/mcp_tool_call.rs       handle_mcp_tool_call                  *)
(*                                                                         *)
(* Each component has its own specification: SpecBucket, SpecBreaker,      *)
(* SpecRetry; SpecCoord is the coordinator with one caller and the         *)
(* responses to its requests, SpecContend the coordinator with several     *)
(* callers, SpecReconcile the coordinator with one caller that reconciles  *)
(* its estimates while responses are processed.  The functions that keep   *)
(* no state are applied once to arguments drawn by Init: SpecShouldRetry,  *)
(* SpecBackoff, SpecParseRetryAfter, SpecComputeRetryDelay, SpecApiError,  *)
(* SpecAttachItemIds, SpecUrl, SpecIsAzure.  SpecLimiter is an             *)
(* AdaptiveRateLimiter on its own.  SpecAlone (one acquirer, the others    *)
(* refunding) and SpecStarve (acquirers against each other) are the bucket *)
(* under weak fairness of the steps of acquire and of the passage of time. *)
(* SpecShare is the coordinator with one caller while the token limit of  *)
(* its hint moves with the responses.  SpecLocks is the coordinator's      *)
(* calls as the sequences of mutex acquisitions they make.  SpecAzure,     *)
(* SpecQueue and SpecMcp are the retrieval calls of core/src/azure.rs, a   *)
(* PriorityRequestQueue shared by several tasks, and one MCP tool call.    *)
(* The variables of the components a specification does not exercise keep *)
(* their initial value.                                                    *)
(*                                                                         *)
(* Steps.  In SpecBucket every lock acquisition of TokenBucket::acquire is *)
(* a step of its own.  In the coordinator one step is one stage of         *)
(* acquire: the breaker test, the pacer read, the pacing sleep, the two    *)
(* bucket lookups, the two available_tokens reads, the capacity guard,     *)
(* one turn of a bucket's acquire loop, the end of a bucket sleep.         *)
(*                                                                         *)
(* Numbers.  Token levels, capacities and rates are f64 in the source; the *)
(* model uses integers.  Instants are integers and the clock advances by   *)
(* whole units (Tick); a sleep of duration d ends no earlier than          *)
(* ceil(d) units after it began.                                           *)
(***************************************************************************)
EXTENDS Integers, Sequences, FiniteSets, TLC

VARIABLES
    now,        \* the clock, Instant::now()
    \* ---- CircuitBreaker (rate_limiter.rs:110-117)
    cb,         \* the breaker: state, until, the two counters, its configuration
    cbLast,     \* history: the last breaker call, the breaker it found, its instant, its answer
    cbConsec,   \* history: record_failure calls since the last record_success
    cbSucc,     \* history: record_success calls since the breaker became HalfOpen
    \* ---- one TokenBucket shared by several tasks (rate_limiter.rs:10-15)
    tb,         \* the bucket: capacity, tokens, refill_rate, last_refill
    tbTask,     \* per task: position in acquire / available_tokens, arguments
    tbLast,     \* history: the last refund / force_debit call and its argument
    \* ---- run_with_retry (retry.rs:161-196)
    rt,         \* the one call: policy, position, attempt, result, history
    \* ---- AzureOpenAIRateLimiter (azure_rate_limiter.rs:30-39); its breaker is cb
    last_context,    \* NoContext, or the (bucket_key, model_hint) of the last acquire
    model_limits,    \* model hint -> its tokens_per_minute and requests_per_minute
    buckets,         \* every TokenBucket created so far; a handle is an index
    token_buckets,   \* bucket key -> handle of its token bucket, 0 when absent
    request_buckets, \* bucket key -> handle of its request bucket, 0 when absent
    current_rate,    \* adaptive_limiter.current_rate
    co,              \* per task: position in acquire, its locals, history
    resizes,         \* update_from_response calls that carried a limit header
    calls,           \* per task: acquire calls made so far
    inflight,        \* deployments with a request admitted and its outcome not yet recorded
    resp,            \* update_from_response: its position and locals
    \* ---- the functions of retry.rs and codex-api/src/error.rs that keep no state
    app,             \* one application: the function, its arguments, its result
    \* ---- rate_limiter.rs: an AdaptiveRateLimiter of its own
    limiter,         \* its fields, and what get_rate returned last
    \* ---- the mutexes of one coordinator and the calls that take them
    mu,              \* mutex -> the task that holds it; per task: the call and its position
    \* ---- a PriorityRequestQueue shared by several tasks (rate_limiter.rs:296-301)
    pq               \* the two queues, each task's position in dequeue, history

brVars == <<cb, cbLast, cbConsec, cbSucc>>
tbVars == <<tb, tbTask, tbLast>>
rtVars == <<rt>>
fnVars == <<app, limiter, mu, pq>>
coVars == <<last_context, model_limits, buckets, token_buckets, request_buckets,
            current_rate, co, resizes, calls, inflight, resp>>
vars == <<now, cb, cbLast, cbConsec, cbSucc, tb, tbTask, tbLast, rt,
          last_context, model_limits, buckets, token_buckets, request_buckets,
          current_rate, co, resizes, calls, inflight, resp, app, limiter, mu, pq>>

----------------------------------------------------------------------------
(* Bounds of the model *)

MaxTime == 2          \* the clock runs from 0 to MaxTime
MaxThreshold == 2     \* failure_threshold, success_threshold range over 1..MaxThreshold
MaxTimeout == 2       \* the breaker's cool-down ranges over 0..MaxTimeout
MaxCapacity == 2      \* a TokenBucket's capacity ranges over 1..MaxCapacity
MaxRefill == 2        \* a TokenBucket's refill_rate ranges over 1..MaxRefill
MaxNeed == 3          \* amounts passed to acquire / refund / force_debit
NumBucketTasks == 2   \* tasks sharing the TokenBucket of SpecBucket
MaxRetryAttempts == 2 \* RetryPolicy.max_attempts ranges over 0..MaxRetryAttempts

\* TokenBucket::acquire gives up after MAX_ATTEMPTS waits.  The source's value
\* is 100 (rate_limiter.rs:30); the model scales it down so that exhaustion is
\* reached within MaxTime.
MAX_ATTEMPTS == 1

Min(a, b) == IF a <= b THEN a ELSE b
Max(a, b) == IF a >= b THEN a ELSE b
CeilDiv(a, b) == (a + b - 1) \div b

\* The clock advances.  Nothing else changes: every refill is lazy.
Tick ==
    /\ now < MaxTime
    /\ now' = now + 1
    /\ UNCHANGED <<brVars, tbVars, rtVars, fnVars, coVars>>

----------------------------------------------------------------------------
(* CircuitBreaker                                                          *)

CircuitBreaker_new(failure_threshold, success_threshold, timeout) ==
    [state |-> "Closed", until |-> 0,
     failure_count |-> 0, success_count |-> 0,
     failure_threshold |-> failure_threshold,
     success_threshold |-> success_threshold,
     timeout |-> timeout]

\* An is_allowed that leaves success_count as it is when it half-opens.
is_allowed_keeping_count(b, t) ==
    CASE b.state = "Open" ->
            IF t >= b.until
            THEN [ok |-> TRUE, cb |-> [b EXCEPT !.state = "HalfOpen", !.until = 0]]
            ELSE [ok |-> FALSE, cb |-> b]
      [] OTHER -> [ok |-> TRUE, cb |-> b]

\* A breaker that lets calls through while it is Open.
is_allowed_while_open(b, t) ==
    [ok |-> TRUE, cb |-> b]

\* is_allowed at instant t: the answer and the breaker after the call.
is_allowed(b, t) ==
    CASE b.state = "Closed" -> [ok |-> TRUE, cb |-> b]
      [] b.state = "Open" ->
            IF t >= b.until
            THEN [ok |-> TRUE,
                  cb |-> [b EXCEPT !.state = "HalfOpen", !.until = 0,
                                   !.success_count = 0]]
            ELSE [ok |-> FALSE, cb |-> b]
      [] b.state = "HalfOpen" -> [ok |-> TRUE, cb |-> b]

\* A record_success that closes one success late (> for >=).
record_success_late(b) ==
    CASE b.state = "HalfOpen" ->
            LET n == b.success_count + 1 IN
            IF n > b.success_threshold
            THEN [b EXCEPT !.success_count = n, !.state = "Closed",
                           !.failure_count = 0]
            ELSE [b EXCEPT !.success_count = n]
      [] b.state = "Closed" -> [b EXCEPT !.failure_count = 0]
      [] OTHER -> b

\* A record_success that closes the breaker with the failures still counted.
record_success_keeping_failures(b) ==
    CASE b.state = "HalfOpen" ->
            LET n == b.success_count + 1 IN
            IF n >= b.success_threshold
            THEN [b EXCEPT !.success_count = n, !.state = "Closed"]
            ELSE [b EXCEPT !.success_count = n]
      [] b.state = "Closed" -> [b EXCEPT !.failure_count = 0]
      [] OTHER -> b

\* A record_success that closes the breaker from any state.
record_success_closing(b) ==
    [b EXCEPT !.state = "Closed", !.failure_count = 0]

record_success(b) ==
    CASE b.state = "HalfOpen" ->
            LET n == b.success_count + 1 IN
            IF n >= b.success_threshold
            THEN [b EXCEPT !.success_count = n, !.state = "Closed",
                           !.failure_count = 0]
            ELSE [b EXCEPT !.success_count = n]
      [] b.state = "Closed" -> [b EXCEPT !.failure_count = 0]
      [] OTHER -> b

\* A record_failure that keeps the successes counted in HalfOpen.
record_failure_keeping_count(b, t) ==
    CASE b.state = "Closed" ->
            LET n == b.failure_count + 1 IN
            IF n >= b.failure_threshold
            THEN [b EXCEPT !.failure_count = n, !.state = "Open",
                           !.until = t + b.timeout]
            ELSE [b EXCEPT !.failure_count = n]
      [] b.state = "HalfOpen" ->
            [b EXCEPT !.state = "Open", !.until = t + b.timeout]
      [] OTHER -> b

\* A record_failure that restarts the cool-down of an Open breaker.
record_failure_extending(b, t) ==
    CASE b.state = "Closed" ->
            LET n == b.failure_count + 1 IN
            IF n >= b.failure_threshold
            THEN [b EXCEPT !.failure_count = n, !.state = "Open",
                           !.until = t + b.timeout]
            ELSE [b EXCEPT !.failure_count = n]
      [] b.state = "HalfOpen" ->
            [b EXCEPT !.state = "Open", !.until = t + b.timeout,
                      !.success_count = 0]
      [] OTHER -> [b EXCEPT !.until = t + b.timeout]

\* A record_failure that opens one failure late (> for >=).
record_failure_late(b, t) ==
    CASE b.state = "Closed" ->
            LET n == b.failure_count + 1 IN
            IF n > b.failure_threshold
            THEN [b EXCEPT !.failure_count = n, !.state = "Open",
                           !.until = t + b.timeout]
            ELSE [b EXCEPT !.failure_count = n]
      [] b.state = "HalfOpen" ->
            [b EXCEPT !.state = "Open", !.until = t + b.timeout,
                      !.success_count = 0]
      [] OTHER -> b

record_failure(b, t) ==
    CASE b.state = "Closed" ->
            LET n == b.failure_count + 1 IN
            IF n >= b.failure_threshold
            THEN [b EXCEPT !.failure_count = n, !.state = "Open",
                           !.until = t + b.timeout]
            ELSE [b EXCEPT !.failure_count = n]
      [] b.state = "HalfOpen" ->
            [b EXCEPT !.state = "Open", !.until = t + b.timeout,
                      !.success_count = 0]
      [] OTHER -> b

\* The history of a breaker that has not been called.
NoCall(b) ==
    [op |-> "new", from |-> b.state, at |-> 0, ret |-> TRUE, before |-> b]

\* The history kept beside the breaker; ret is what the call answered (TRUE
\* for the two calls that answer nothing).
BreakerCalled(op, ret) ==
    /\ cbLast' = [op |-> op, from |-> cb.state, at |-> now, ret |-> ret, before |-> cb]
    /\ cbSucc' = CASE op = "record_success" /\ cb.state = "HalfOpen" ->
                        Min(cbSucc + 1, MaxThreshold + 1)
                   [] cb.state # "HalfOpen" /\ cb'.state = "HalfOpen" -> 0
                   [] OTHER -> cbSucc
    /\ cbConsec' = CASE op = "record_failure" -> Min(cbConsec + 1, MaxThreshold + 1)
                     [] op = "record_success" -> 0
                     [] OTHER -> cbConsec

IsAllowedCall ==
    /\ cb' = is_allowed(cb, now).cb
    /\ BreakerCalled("is_allowed", is_allowed(cb, now).ok)
    /\ UNCHANGED <<now, tbVars, rtVars, fnVars, coVars>>

RecordSuccess ==
    /\ cb' = record_success(cb)
    /\ BreakerCalled("record_success", TRUE)
    /\ UNCHANGED <<now, tbVars, rtVars, fnVars, coVars>>

RecordFailure ==
    /\ cb' = record_failure(cb, now)
    /\ BreakerCalled("record_failure", TRUE)
    /\ UNCHANGED <<now, tbVars, rtVars, fnVars, coVars>>

BreakerIdle ==
    /\ cb = CircuitBreaker_new(1, 1, 0)
    /\ cbLast = NoCall(cb)
    /\ cbConsec = 0
    /\ cbSucc = 0

----------------------------------------------------------------------------
(* TokenBucket                                                             *)

TokenBucket_new(capacity, refill_rate, t) ==
    [capacity |-> capacity, tokens |-> capacity,
     refill_rate |-> refill_rate, last_refill |-> t]

\* refill at instant t.  duration_since saturates at zero.
refill(b, t) ==
    LET elapsed == Max(t - b.last_refill, 0)
        new_tokens == Min(b.tokens + elapsed * b.refill_rate, b.capacity)
    IN [b EXCEPT !.tokens = IF new_tokens > b.tokens THEN new_tokens ELSE b.tokens,
                 !.last_refill = t]

\* A refund without the clamp to capacity.
refund_unclamped(b, tokens) ==
    IF tokens <= 0 THEN b
    ELSE [b EXCEPT !.tokens = b.tokens + tokens]

refund(b, tokens) ==
    IF tokens <= 0 THEN b
    ELSE [b EXCEPT !.tokens = Min(b.tokens + tokens, b.capacity)]

\* A force_debit without the floor at zero.
force_debit_unclamped(b, tokens) ==
    IF tokens <= 0 THEN b
    ELSE [b EXCEPT !.tokens = b.tokens - tokens]

force_debit(b, tokens) ==
    IF tokens <= 0 THEN b
    ELSE [b EXCEPT !.tokens = Max(b.tokens - tokens, 0)]

\* Duration::from_secs_f64(tokens_deficit / self.refill_rate), the deficit
\* being positive: with a refill_rate of 0.0 the quotient is infinite and
\* from_secs_f64 panics.
wait_time_panics(tokens_deficit, refill_rate) == refill_rate = 0

wait_time(tokens_deficit, refill_rate) ==
    IF refill_rate = 0 THEN 0 ELSE CeilDiv(tokens_deficit, refill_rate)

\* A test that lets the caller through one token short.
try_acquire_one_short(b, tokens_needed) ==
    IF b.tokens + 1 >= tokens_needed
    THEN [ok |-> TRUE, bucket |-> [b EXCEPT !.tokens = Max(b.tokens - tokens_needed, 0)],
          wait |-> 0, panic |-> FALSE]
    ELSE [ok |-> FALSE, bucket |-> b,
          wait |-> wait_time(tokens_needed - b.tokens, b.refill_rate),
          panic |-> wait_time_panics(tokens_needed - b.tokens, b.refill_rate)]

\* A test that, short of tokens, takes what is there.
try_acquire_taking_the_rest(b, tokens_needed) ==
    IF b.tokens >= tokens_needed
    THEN [ok |-> TRUE, bucket |-> [b EXCEPT !.tokens = b.tokens - tokens_needed],
          wait |-> 0, panic |-> FALSE]
    ELSE [ok |-> FALSE, bucket |-> [b EXCEPT !.tokens = 0],
          wait |-> wait_time(tokens_needed - b.tokens, b.refill_rate),
          panic |-> wait_time_panics(tokens_needed - b.tokens, b.refill_rate)]

\* A debit that is made without the test.
try_acquire_untested(b, tokens_needed) ==
    [ok |-> TRUE, bucket |-> [b EXCEPT !.tokens = b.tokens - tokens_needed],
     wait |-> 0, panic |-> FALSE]

\* One pass of the loop of acquire after its refill, under the tokens lock:
\* the test and the debit, or the wait the caller then sleeps.
try_acquire(b, tokens_needed) ==
    IF b.tokens >= tokens_needed
    THEN [ok |-> TRUE, bucket |-> [b EXCEPT !.tokens = b.tokens - tokens_needed],
          wait |-> 0, panic |-> FALSE]
    ELSE [ok |-> FALSE, bucket |-> b,
          wait |-> wait_time(tokens_needed - b.tokens, b.refill_rate),
          panic |-> wait_time_panics(tokens_needed - b.tokens, b.refill_rate)]

BucketTasks == 1..NumBucketTasks

\* ret is what the task's last call returned: "Ok" or "Err" from acquire, "Level"
\* (with the level in val) from available_tokens; a task whose acquire
\* panicked is "panicked" for good.
\* called, avail and refunded are history, kept where a call is timed: the
\* instant of the acquire call, what the bucket had available then, whether
\* a refund was made while the call ran.
IdleTask == [pc |-> "idle", need |-> 0, attempts |-> 0, wake |-> 0,
             ret |-> "none", val |-> 0,
             called |-> 0, avail |-> 0, refunded |-> FALSE]

\* acquire(tokens_needed) is called; the amounts the callers pass are counts.
AcquireCall(t, n) ==
    /\ tbTask[t].pc = "idle"
    /\ tbTask' = [tbTask EXCEPT ![t] = [IdleTask EXCEPT !.pc = "refill", !.need = n]]
    /\ UNCHANGED <<now, tb, tbLast, brVars, rtVars, fnVars, coVars>>

\* self.refill().await at the head of the loop.
AcquireRefill(t) ==
    /\ tbTask[t].pc = "refill"
    /\ tb' = refill(tb, now)
    /\ tbTask' = [tbTask EXCEPT ![t].pc = "check"]
    /\ UNCHANGED <<now, tbLast, brVars, rtVars, fnVars, coVars>>

\* The test under the tokens lock: debit and return, panic on the wait
\* time, give up, or sleep.
AcquireCheck(t) ==
    /\ tbTask[t].pc = "check"
    /\ LET r == try_acquire(tb, tbTask[t].need) IN
       /\ tb' = r.bucket
       /\ tbTask' = [tbTask EXCEPT ![t] =
            IF r.ok THEN [@ EXCEPT !.pc = "idle", !.ret = "Ok"]
            ELSE IF r.panic THEN [@ EXCEPT !.pc = "panicked", !.ret = "Panic"]
            ELSE IF @.attempts >= MAX_ATTEMPTS
                 THEN [@ EXCEPT !.pc = "idle", !.ret = "Err"]
                 ELSE [@ EXCEPT !.pc = "sleep", !.wake = now + r.wait]]
    /\ UNCHANGED <<now, tbLast, brVars, rtVars, fnVars, coVars>>

\* sleep(wait_time) is over; attempts += 1 and the loop starts again.
AcquireWake(t) ==
    /\ tbTask[t].pc = "sleep"
    /\ now >= tbTask[t].wake
    /\ tbTask' = [tbTask EXCEPT ![t].pc = "refill", ![t].attempts = @ + 1]
    /\ UNCHANGED <<now, tb, tbLast, brVars, rtVars, fnVars, coVars>>

\* available_tokens: refill, then read the level.
AvailableCall(t) ==
    /\ tbTask[t].pc = "idle"
    /\ tb' = refill(tb, now)
    /\ tbTask' = [tbTask EXCEPT ![t] = [IdleTask EXCEPT !.pc = "read"]]
    /\ UNCHANGED <<now, tbLast, brVars, rtVars, fnVars, coVars>>

AvailableRead(t) ==
    /\ tbTask[t].pc = "read"
    /\ tbTask' = [tbTask EXCEPT ![t].pc = "idle", ![t].ret = "Level",
                                 ![t].val = tb.tokens]
    /\ UNCHANGED <<now, tb, tbLast, brVars, rtVars, fnVars, coVars>>

Refund(n) ==
    /\ tb' = refund(tb, n)
    /\ tbLast' = [op |-> "refund", arg |-> n]
    /\ UNCHANGED <<now, tbTask, brVars, rtVars, fnVars, coVars>>

ForceDebit(n) ==
    /\ tb' = force_debit(tb, n)
    /\ tbLast' = [op |-> "force_debit", arg |-> n]
    /\ UNCHANGED <<now, tbTask, brVars, rtVars, fnVars, coVars>>

\* acquire(tokens_needed) called while the clock is within its bound, with
\* the history of the call.
TimedAcquireCall(t, n) ==
    /\ now < MaxTime
    /\ tbTask[t].pc = "idle"
    /\ tbTask' = [tbTask EXCEPT ![t] =
                    [IdleTask EXCEPT !.pc = "refill", !.need = n, !.called = now,
                                     !.avail = refill(tb, now).tokens]]
    /\ UNCHANGED <<now, tb, tbLast, brVars, rtVars, fnVars, coVars>>

\* refund(n) by a task that is in no call, noted by the calls that are running.
RefundDuring(n) ==
    /\ tb' = refund(tb, n)
    /\ tbLast' = [op |-> "refund", arg |-> n]
    /\ tbTask' = [t \in BucketTasks |->
                    IF tbTask[t].pc \in {"refill", "check", "sleep"} /\ n > 0
                    THEN [tbTask[t] EXCEPT !.refunded = TRUE]
                    ELSE tbTask[t]]
    /\ UNCHANGED <<now, brVars, rtVars, fnVars, coVars>>

\* The clock advances within its bound, and beyond it while a task sleeps:
\* a sleep always ends.
SleepTick ==
    /\ \/ now < MaxTime
       \/ \E t \in BucketTasks : tbTask[t].pc = "sleep" /\ tbTask[t].wake > now
    /\ now' = now + 1
    /\ UNCHANGED <<brVars, tbVars, rtVars, fnVars, coVars>>

\* acquire(tokens_needed) called while the clock is within its bound.
BoundedAcquireCall(t, n) ==
    /\ now < MaxTime
    /\ AcquireCall(t, n)

BucketIdle ==
    /\ tb = TokenBucket_new(1, 1, 0)
    /\ tbTask = [t \in BucketTasks |-> IdleTask]
    /\ tbLast = [op |-> "new", arg |-> 0]

----------------------------------------------------------------------------
(* RetryOn::should_retry and run_with_retry                                *)

\* The errors an operation can fail with.  Http carries its status.
HttpStatuses == {400, 429, 500, 503}
TransportErrors ==
    [kind : {"Http"}, status : HttpStatuses]
      \cup [kind : {"Timeout", "Network", "RetryLimit"}, status : {0}]

RetryLimit == [kind |-> "RetryLimit", status |-> 0]

is_server_error(status) == status >= 500 /\ status <= 599

\* A should_retry that allows one attempt more (> for >=).
should_retry_once_more(retry_on, err, attempt, max_attempts) ==
    IF attempt > max_attempts THEN FALSE
    ELSE CASE err.kind = "Http" ->
                 \/ (retry_on.retry_429 /\ err.status = 429)
                 \/ (retry_on.retry_5xx /\ is_server_error(err.status))
           [] err.kind \in {"Timeout", "Network"} -> retry_on.retry_transport
           [] OTHER -> FALSE

should_retry(retry_on, err, attempt, max_attempts) ==
    IF attempt >= max_attempts THEN FALSE
    ELSE CASE err.kind = "Http" ->
                 \/ (retry_on.retry_429 /\ err.status = 429)
                 \/ (retry_on.retry_5xx /\ is_server_error(err.status))
           [] err.kind \in {"Timeout", "Network"} -> retry_on.retry_transport
           [] OTHER -> FALSE

\* The kind of error the policy marks retryable, whatever the attempt number.
Retryable(retry_on, err) == should_retry(retry_on, err, 0, 1)

RetryPolicies ==
    [max_attempts : 0..MaxRetryAttempts,
     retry_on : [retry_429 : BOOLEAN, retry_5xx : BOOLEAN, retry_transport : BOOLEAN]]

\* What run_with_retry does with the outcome of op(req, attempt):
\* "return" it, or "sleep" and go round the loop.
\* A match that sleeps after every error.
after_op_sleeping_on_any_error(policy, attempt, outcome) ==
    IF outcome.ok THEN "return" ELSE "sleep"

\* A match that takes an Ok for a retryable error while an attempt is left.
after_op_retrying_ok(policy, attempt, outcome) ==
    IF outcome.ok /\ attempt < policy.max_attempts THEN "sleep"
    ELSE IF outcome.ok THEN "return"
    ELSE IF should_retry(policy.retry_on, outcome.err, attempt, policy.max_attempts)
         THEN "sleep"
         ELSE "return"

after_op(policy, attempt, outcome) ==
    IF outcome.ok THEN "return"
    ELSE IF should_retry(policy.retry_on, outcome.err, attempt, policy.max_attempts)
         THEN "sleep"
         ELSE "return"

RetryStart(policy) ==
    [policy |-> policy, pc |-> "make_req", attempt |-> 0,
     result |-> [ok |-> FALSE, err |-> RetryLimit],
     made |-> 0, calls |-> 0, sleeps |-> 0, allRetryable |-> TRUE,
     passed |-> <<>>]

\* let req = make_req();
MakeReq ==
    /\ rt.pc = "make_req"
    /\ rt' = [rt EXCEPT !.pc = "op", !.made = @ + 1]
    /\ UNCHANGED <<now, brVars, tbVars, coVars, fnVars>>

\* op(req, attempt).await and the match on its result.
OpReturns(outcome) ==
    /\ rt.pc = "op"
    /\ LET todo == after_op(rt.policy, rt.attempt, outcome) IN
       rt' = [rt EXCEPT
                !.calls = @ + 1,
                !.passed = Append(@, [attempt |-> rt.attempt, outcome |-> outcome]),
                !.allRetryable = @ /\ ~outcome.ok /\ Retryable(rt.policy.retry_on, outcome.err),
                !.pc = IF todo = "return" THEN "done" ELSE "sleep",
                !.result = IF todo = "return" THEN outcome ELSE @]
    /\ UNCHANGED <<now, brVars, tbVars, coVars, fnVars>>

\* sleep(delay).await is over; the for loop takes the next attempt, or ends
\* and the function returns Err(TransportError::RetryLimit).
RetrySleepOver ==
    /\ rt.pc = "sleep"
    /\ rt' = IF rt.attempt < rt.policy.max_attempts
             THEN [rt EXCEPT !.pc = "make_req", !.attempt = @ + 1, !.sleeps = @ + 1]
             ELSE [rt EXCEPT !.pc = "done", !.sleeps = @ + 1,
                             !.result = [ok |-> FALSE, err |-> RetryLimit]]
    /\ UNCHANGED <<now, brVars, tbVars, coVars, fnVars>>

OpOutcomes ==
    {[ok |-> TRUE, err |-> RetryLimit]} \cup [ok : {FALSE}, err : TransportErrors]

RetryIdle == rt = RetryStart([max_attempts |-> 0,
                              retry_on |-> [retry_429 |-> FALSE, retry_5xx |-> FALSE,
                                            retry_transport |-> FALSE]])

----------------------------------------------------------------------------
(* The functions of retry.rs that keep no state, each applied once to       *)
(* arguments drawn by Init.                                                 *)

\* No function is being applied.
FnIdle == app = [f |-> "none"] /\ limiter = [min_rate |-> 0] /\ mu = [idle |-> TRUE] /\ pq = [idle |-> TRUE]

\* The one step of an application: the result is computed.
Apply(f, out) ==
    /\ app.f = f
    /\ ~app.done
    /\ app' = [app EXCEPT !.done = TRUE, !.out = out]
    /\ UNCHANGED <<now, limiter, mu, pq, brVars, tbVars, rtVars, coVars>>

\* Every error should_retry can be given: Http with statuses on both sides of
\* 429 and of the 5xx range, and the kinds that carry no status.
AnyStatuses == {200, 400, 404, 428, 429, 430, 499, 500, 503, 599, 600}
AnyTransportErrors ==
    [kind : {"Http"}, status : AnyStatuses]
      \cup [kind : {"Timeout", "Network", "RetryLimit", "Build"}, status : {0}]

ShouldRetryArgs ==
    [f : {"should_retry"},
     retry_on : [retry_429 : BOOLEAN, retry_5xx : BOOLEAN, retry_transport : BOOLEAN],
     err : AnyTransportErrors,
     attempt : 0..(MaxRetryAttempts + 1),
     max_attempts : 0..(MaxRetryAttempts + 1),
     done : {FALSE}, out : {FALSE}]

ShouldRetryCall ==
    Apply("should_retry",
          should_retry(app.retry_on, app.err, app.attempt, app.max_attempts))

\* ---- backoff
\* u64 is scaled to 0..U64_MAX and u32 to 0..U32_MAX.  A Duration is a number
\* of milliseconds.
U64_MAX == 255
U32_MAX == 15

\* A value of type Duration that a call returns, or that the call panicked.
Dur(ms) == [kind |-> "Duration", ms |-> ms]
Panicked == [kind |-> "Panic", ms |-> 0]

\* 2u64.saturating_pow(e)
RECURSIVE saturating_pow2(_)
saturating_pow2(e) ==
    IF e = 0 THEN 1 ELSE Min(2 * saturating_pow2(e - 1), U64_MAX)

saturating_mul(a, b) == Min(a * b, U64_MAX)

\* (raw as f64 * jitter) as u64 for the jitters of random_range(0.9..1.1):
\* the product is truncated, and the cast saturates.
Jittered(raw) ==
    IF raw = 0 THEN {0}
    ELSE LET low == (9 * raw) \div 10
             high == IF (11 * raw) % 10 = 0 THEN (11 * raw) \div 10 - 1
                     ELSE (11 * raw) \div 10
         IN {Min(m, U64_MAX) : m \in low..high}

\* backoff(base, attempt): the Durations it can return.  `attempt as u32`
\* keeps the low bits of attempt; `- 1` on a zero u32 panics in a build with
\* overflow checks and wraps to u32::MAX in one without.
backoff(base, attempt) ==
    IF attempt = 0 THEN {Dur(base)}
    ELSE LET as_u32 == attempt % (U32_MAX + 1)
             millis == base % (U64_MAX + 1)
             delays(e) == {Dur(m) : m \in Jittered(saturating_mul(millis, saturating_pow2(e)))}
         IN IF as_u32 = 0 THEN {Panicked} \cup delays(U32_MAX)
            ELSE delays(as_u32 - 1)

\* The base delays and attempt numbers drawn: attempts on both sides of the
\* width of u32.
BaseDelays == {0, 1, 2, 3, 10, 100, 200, U64_MAX}

BackoffArgs ==
    [f : {"backoff"}, base : BaseDelays, attempt : 0..(U32_MAX + 2),
     done : {FALSE}, out : {Dur(0)}]

BackoffCall ==
    \E d \in backoff(app.base, app.attempt) : Apply("backoff", d)

\* ---- parse_retry_after_headers
\* A header value is a sequence of bytes, each written as a one-character
\* string; "0xff" is a byte outside visible ASCII.  The texts drawn are
\* decimal: no exponent, no whitespace.  A Duration is a number of
\* milliseconds; digits beyond the third decimal of a second are dropped.
\* The seconds a Duration can hold are those of a u64.
Digits == {"0", "1", "2", "3", "4", "5", "6", "7", "8", "9"}

DigitVal(c) ==
    CASE c = "0" -> 0 [] c = "1" -> 1 [] c = "2" -> 2 [] c = "3" -> 3 [] c = "4" -> 4
      [] c = "5" -> 5 [] c = "6" -> 6 [] c = "7" -> 7 [] c = "8" -> 8 [] c = "9" -> 9

AllDigits(s) == \A i \in 1..Len(s) : s[i] \in Digits

\* The number a digit string writes, as far as U64_MAX + 1: anything above
\* reads as U64_MAX + 1.
RECURSIVE DigitsValue(_, _)
DigitsValue(s, acc) ==
    IF s = <<>> THEN acc
    ELSE DigitsValue(Tail(s), Min(acc * 10 + DigitVal(Head(s)), U64_MAX + 1))

\* HeaderValue::to_str: Err unless every byte is visible ASCII.
to_str(bytes) ==
    IF \E i \in 1..Len(bytes) : bytes[i] = "0xff"
    THEN [ok |-> FALSE, s |-> <<>>]
    ELSE [ok |-> TRUE, s |-> bytes]

\* str::parse::<u64>: an optional "+", one digit or more, no overflow.
parse_u64(s) ==
    LET body == IF s # <<>> /\ Head(s) = "+" THEN Tail(s) ELSE s IN
    IF body # <<>> /\ AllDigits(body) /\ DigitsValue(body, 0) <= U64_MAX
    THEN [ok |-> TRUE, val |-> DigitsValue(body, 0)]
    ELSE [ok |-> FALSE, val |-> 0]

UpperCase ==
    <<"A", "B", "C", "D", "E", "F", "G", "H", "I", "J", "K", "L", "M", "N", "O", "P",
      "Q", "R", "S", "T", "U", "V", "W", "X", "Y", "Z">>
LowerCase ==
    <<"a", "b", "c", "d", "e", "f", "g", "h", "i", "j", "k", "l", "m", "n", "o", "p",
      "q", "r", "s", "t", "u", "v", "w", "x", "y", "z">>

\* u8::to_ascii_lowercase
to_ascii_lowercase_byte(c) ==
    IF \E i \in 1..Len(UpperCase) : UpperCase[i] = c
    THEN LowerCase[CHOOSE i \in 1..Len(UpperCase) : UpperCase[i] = c]
    ELSE c

\* The milliseconds the first three digits of a fraction write.
Millis(frac) ==
    LET d(i) == IF i <= Len(frac) THEN DigitVal(frac[i]) ELSE 0 IN
    d(1) * 100 + d(2) * 10 + d(3)

\* str::parse::<f64>: an optional sign, then inf, infinity or nan in any
\* case, or digits with an optional point, one digit at least.  The value is
\* kept as its class, its sign, its whole seconds (as far as U64_MAX + 1) and
\* its milliseconds.
parse_f64(s) ==
    LET signed == s # <<>> /\ Head(s) \in {"+", "-"}
        neg == s # <<>> /\ Head(s) = "-"
        body == IF signed THEN Tail(s) ELSE s
        word == [i \in 1..Len(body) |-> to_ascii_lowercase_byte(body[i])]
        dots == {i \in 1..Len(body) : body[i] = "."}
        point == IF dots = {} THEN Len(body) + 1
                 ELSE CHOOSE i \in dots : \A j \in dots : i <= j
        whole == SubSeq(body, 1, point - 1)
        frac == SubSeq(body, point + 1, Len(body))
        Err == [ok |-> FALSE, class |-> "none", neg |-> FALSE, secs |-> 0, millis |-> 0]
    IN  IF word \in {<<"i", "n", "f">>, <<"i", "n", "f", "i", "n", "i", "t", "y">>}
        THEN [ok |-> TRUE, class |-> "inf", neg |-> neg, secs |-> 0, millis |-> 0]
        ELSE IF word = <<"n", "a", "n">>
        THEN [ok |-> TRUE, class |-> "nan", neg |-> neg, secs |-> 0, millis |-> 0]
        ELSE IF /\ AllDigits(whole) /\ AllDigits(frac)
                /\ Len(whole) + Len(frac) > 0
        THEN [ok |-> TRUE, class |-> "num", neg |-> neg,
              secs |-> DigitsValue(whole, 0), millis |-> Millis(frac)]
        ELSE Err

is_finite(x) == x.class = "num"

\* secs >= 0.0; -0.0 compares equal to 0.0 and NaN compares false.
ge_zero(x) ==
    \/ x.class = "inf" /\ ~x.neg
    \/ x.class = "num" /\ (~x.neg \/ (x.secs = 0 /\ x.millis = 0))

\* An Option<Duration>.
Some(ms) == [kind |-> "Some", ms |-> ms]
None == [kind |-> "None", ms |-> 0]

\* Duration::from_secs_f64 panics when secs is negative, is not finite or
\* overflows Duration.
from_secs_f64(x) ==
    IF ~is_finite(x) \/ ~ge_zero(x) \/ x.secs > U64_MAX THEN Panicked
    ELSE Some(x.secs * 1000 + x.millis)

Absent == [present |-> FALSE, bytes |-> <<>>]
Present(bytes) == [present |-> TRUE, bytes |-> bytes]

parse_retry_after_headers(headers) ==
    LET ms_ok(h) == h.present /\ to_str(h.bytes).ok /\ parse_u64(to_str(h.bytes).s).ok
        from_millis(h) == Some(parse_u64(to_str(h.bytes).s).val)
    IN  IF ms_ok(headers.retry_after_ms) THEN from_millis(headers.retry_after_ms)
        ELSE IF ms_ok(headers.x_ms_retry_after_ms)
        THEN from_millis(headers.x_ms_retry_after_ms)
        ELSE IF headers.retry_after.present /\ to_str(headers.retry_after.bytes).ok
        THEN LET value_str == to_str(headers.retry_after.bytes).s IN
             IF parse_u64(value_str).ok THEN Some(parse_u64(value_str).val * 1000)
             ELSE IF /\ parse_f64(value_str).ok /\ is_finite(parse_f64(value_str))
                     /\ ge_zero(parse_f64(value_str))
             THEN from_secs_f64(parse_f64(value_str))
             ELSE None
        ELSE None

\* The header values drawn: integers, one with a sign, decimals, one of more
\* digits than u64 holds, negatives, the non-finite words, text that is no
\* number, bytes that are no text, and the empty value.
HeaderTexts ==
    {<<"1", "5", "0">>, <<"3", "0">>, <<"0">>, <<"+", "5">>,
     <<"1", ".", "5">>, <<"5", ".">>, <<".", "5">>, <<"9", "9", "9">>,
     <<"-", "5", ".", "0">>, <<"-", "0">>, <<"i", "n", "f">>, <<"N", "a", "N">>,
     <<"x">>, <<"0xff", "0xfe">>, <<>>}

HeaderValues == {Absent} \cup {Present(b) : b \in HeaderTexts}

HeaderMaps ==
    [retry_after_ms : HeaderValues, x_ms_retry_after_ms : HeaderValues,
     retry_after : HeaderValues]

ParseRetryAfterArgs ==
    [f : {"parse_retry_after_headers"}, headers : HeaderMaps,
     done : {FALSE}, out : {None}]

ParseRetryAfterCall ==
    Apply("parse_retry_after_headers", parse_retry_after_headers(app.headers))

\* ---- compute_retry_delay
\* headers: Option<&HeaderMap>
NoHeaders == [some |-> FALSE, map |-> [retry_after_ms |-> Absent,
                                       x_ms_retry_after_ms |-> Absent,
                                       retry_after |-> Absent]]
SomeHeaders(map) == [some |-> TRUE, map |-> map]

\* compute_retry_delay: the Durations it can return.  attempt + 1 on the
\* largest u64 panics in a build with overflow checks and wraps to 0 in one
\* without.
compute_retry_delay(headers, base_delay, attempt, max_retry_delay) ==
    LET parsed == IF headers.some THEN parse_retry_after_headers(headers.map) ELSE None
        fall_back == IF attempt = U64_MAX THEN {Panicked} \cup backoff(base_delay, 0)
                     ELSE backoff(base_delay, attempt + 1)
    IN  IF parsed.kind = "Panic" THEN {Panicked}
        ELSE IF parsed.kind = "Some"
        THEN IF max_retry_delay.kind = "Some"
             THEN IF parsed.ms <= max_retry_delay.ms THEN {Dur(parsed.ms)}
                  ELSE fall_back
             ELSE {Dur(parsed.ms)}
        ELSE fall_back

\* The arguments drawn: no header map, or one whose headers are absent,
\* valid, invalid or beyond a Duration; a bound below, between and above
\* the delays the headers give, or none.
DelayHeaderMaps ==
    [retry_after_ms : {Absent, Present(<<"1", "5", "0">>), Present(<<"x">>)},
     x_ms_retry_after_ms : {Absent, Present(<<"3", "0">>), Present(<<"0xff", "0xfe">>)},
     retry_after : {Absent, Present(<<"3", "0">>), Present(<<"1", ".", "5">>),
                    Present(<<"9", "9", "9">>), Present(<<"-", "5", ".", "0">>),
                    Present(<<"N", "a", "N">>)}]

MaxRetryDelays == {None, Some(0), Some(100), Some(30000)}

ComputeRetryDelayArgs ==
    [f : {"compute_retry_delay"},
     headers : {NoHeaders} \cup {SomeHeaders(m) : m \in DelayHeaderMaps},
     base_delay : {1, 100},
     attempt : 0..MaxRetryAttempts,
     max_retry_delay : MaxRetryDelays,
     done : {FALSE}, out : {Dur(0)}]

ComputeRetryDelayCall ==
    \E d \in compute_retry_delay(app.headers, app.base_delay, app.attempt,
                                 app.max_retry_delay) :
        Apply("compute_retry_delay", d)

----------------------------------------------------------------------------
(* codex-api/src/error.rs: From<TransportError> for ApiError.  A string is  *)
(* a sequence of one-character strings.                                    *)

\* "invalid_request_error"
INVALID_REQUEST_ERROR ==
    <<"i", "n", "v", "a", "l", "i", "d", "_", "r", "e", "q", "u", "e", "s", "t", "_",
      "e", "r", "r", "o", "r">>

\* "previous_response_id"
PREVIOUS_RESPONSE_ID ==
    <<"p", "r", "e", "v", "i", "o", "u", "s", "_", "r", "e", "s", "p", "o", "n", "s",
      "e", "_", "i", "d">>

\* "input"
INPUT ==
    <<"i", "n", "p", "u", "t">>

\* "previous"
PREVIOUS ==
    <<"p", "r", "e", "v", "i", "o", "u", "s">>

\* "not found"
NOT_FOUND ==
    <<"n", "o", "t", " ", "f", "o", "u", "n", "d">>

\* "duplicate item"
DUPLICATE_ITEM ==
    <<"d", "u", "p", "l", "i", "c", "a", "t", "e", " ", "i", "t", "e", "m">>

\* "no tool output found"
NO_TOOL_OUTPUT_FOUND ==
    <<"n", "o", " ", "t", "o", "o", "l", " ", "o", "u", "t", "p", "u", "t", " ", "f",
      "o", "u", "n", "d">>

\* "output is missing"
OUTPUT_IS_MISSING ==
    <<"o", "u", "t", "p", "u", "t", " ", "i", "s", " ", "m", "i", "s", "s", "i", "n",
      "g">>

\* str::contains
contains(s, pat) ==
    \E i \in 0..(Len(s) - Len(pat)) : SubSeq(s, i + 1, i + Len(pat)) = pat

\* str::starts_with
starts_with(s, pat) == Len(s) >= Len(pat) /\ SubSeq(s, 1, Len(pat)) = pat

\* str::to_ascii_lowercase
to_ascii_lowercase(s) == [i \in 1..Len(s) |-> to_ascii_lowercase_byte(s[i])]

\* Option<String>
NoString == [some |-> FALSE, s |-> <<>>]
SomeString(s) == [some |-> TRUE, s |-> s]
unwrap_or_empty(o) == IF o.some THEN o.s ELSE <<>>

\* A body as serde_json reads it: text that is no ErrorEnvelope (parses
\* FALSE), an envelope without "error" or with null (has_error FALSE), or an
\* envelope with its ErrorDetail.
NoDetail == [type |-> NoString, param |-> NoString, message |-> NoString]
NotJson == [parses |-> FALSE, has_error |-> FALSE, error |-> NoDetail]
NoErrorField == [parses |-> TRUE, has_error |-> FALSE, error |-> NoDetail]
Envelope(detail) == [parses |-> TRUE, has_error |-> TRUE, error |-> detail]

\* The errors ApiError has, as far as the conversion makes them.
NoTransportError == [kind |-> "none", status |-> 0, url |-> "", headers |-> "",
                     has_body |-> FALSE, body |-> NotJson]
PreviousResponseChainBroken(message) ==
    [kind |-> "PreviousResponseChainBroken", message |-> message,
     err |-> NoTransportError]
Transport(err) == [kind |-> "Transport", message |-> <<>>, err |-> err]
NoApiError == [kind |-> "None", message |-> <<>>, err |-> NoTransportError]

\* A from_bad_request_body that hands on the lowercased message.
from_bad_request_body_lowercased(body) ==
    IF ~body.parses THEN NoApiError
    ELSE IF ~body.has_error THEN NoApiError
    ELSE LET error == body.error IN
         IF ~(error.type.some /\ error.type.s = INVALID_REQUEST_ERROR) THEN NoApiError
         ELSE LET msg == unwrap_or_empty(error.message)
                  msg_lower == to_ascii_lowercase(msg)
                  param == unwrap_or_empty(error.param)
              IN IF \/ param = PREVIOUS_RESPONSE_ID
                    \/ (contains(msg_lower, PREVIOUS) /\ contains(msg_lower, NOT_FOUND))
                    \/ (starts_with(param, INPUT) /\ contains(msg_lower, NOT_FOUND))
                    \/ (param = INPUT /\ contains(msg_lower, DUPLICATE_ITEM))
                    \/ (param = INPUT /\ contains(msg_lower, NO_TOOL_OUTPUT_FOUND))
                    \/ (param = INPUT /\ contains(msg_lower, OUTPUT_IS_MISSING))
                 THEN PreviousResponseChainBroken(msg_lower)
                 ELSE NoApiError

\* ApiError::from_bad_request_body: Option<ApiError>
from_bad_request_body(body) ==
    IF ~body.parses THEN NoApiError
    ELSE IF ~body.has_error THEN NoApiError
    ELSE LET error == body.error IN
         IF ~(error.type.some /\ error.type.s = INVALID_REQUEST_ERROR) THEN NoApiError
         ELSE LET msg == unwrap_or_empty(error.message)
                  msg_lower == to_ascii_lowercase(msg)
                  param == unwrap_or_empty(error.param)
              IN IF \/ param = PREVIOUS_RESPONSE_ID
                    \/ (contains(msg_lower, PREVIOUS) /\ contains(msg_lower, NOT_FOUND))
                    \/ (starts_with(param, INPUT) /\ contains(msg_lower, NOT_FOUND))
                    \/ (param = INPUT /\ contains(msg_lower, DUPLICATE_ITEM))
                    \/ (param = INPUT /\ contains(msg_lower, NO_TOOL_OUTPUT_FOUND))
                    \/ (param = INPUT /\ contains(msg_lower, OUTPUT_IS_MISSING))
                 THEN PreviousResponseChainBroken(unwrap_or_empty(error.message))
                 ELSE NoApiError

BAD_REQUEST == 400

\* impl From<TransportError> for ApiError
ApiError_from(err) ==
    IF err.kind = "Http"
    THEN IF /\ err.status = BAD_REQUEST
            /\ err.has_body
            /\ from_bad_request_body(err.body).kind # "None"
         THEN from_bad_request_body(err.body)
         ELSE Transport(err)
    ELSE Transport(err)

\* The values of "type" drawn.
ErrorTypes ==
    {<<"i", "n", "v", "a", "l", "i", "d", "_", "r", "e", "q", "u", "e", "s", "t", "_",
       "e", "r", "r", "o", "r">>,
     <<"s", "e", "r", "v", "e", "r", "_", "e", "r", "r", "o", "r">>}

\* The values of "param" drawn.
ErrorParams ==
    {<<"p", "r", "e", "v", "i", "o", "u", "s", "_", "r", "e", "s", "p", "o", "n", "s",
       "e", "_", "i", "d">>,
     <<"i", "n", "p", "u", "t">>,
     <<"i", "n", "p", "u", "t", "[", "3", "]", ".", "i", "d">>,
     <<"I", "n", "p", "u", "t">>,
     <<"m", "a", "x", "_", "o", "u", "t", "p", "u", "t", "_", "t", "o", "k", "e", "n", "s">>,
     <<>>}

\* The values of "message" drawn: those of the tests, in mixed case, and their kin.
ErrorMessages ==
    {<<"I", "t", "e", "m", " ", "w", "i", "t", "h", " ", "i", "d", " ", "r", "e", "s",
       "p", "-", "1", " ", "n", "o", "t", " ", "f", "o", "u", "n", "d", ".">>,
     <<"P", "r", "e", "v", "i", "o", "u", "s", " ", "r", "e", "s", "p", "o", "n", "s",
       "e", " ", "N", "O", "T", " ", "F", "O", "U", "N", "D">>,
     <<"p", "r", "e", "v", "i", "o", "u", "s", " ", "r", "e", "s", "p", "o", "n", "s",
       "e", " ", "e", "x", "p", "i", "r", "e", "d">>,
     <<"D", "u", "p", "l", "i", "c", "a", "t", "e", " ", "i", "t", "e", "m", " ", "f",
       "o", "u", "n", "d", " ", "w", "i", "t", "h", " ", "i", "d", " ", "r", "s", "_", "0">>,
     <<"N", "o", " ", "t", "o", "o", "l", " ", "o", "u", "t", "p", "u", "t", " ", "f",
       "o", "u", "n", "d", " ", "f", "o", "r", " ", "c", "a", "l", "l", "_", "X", ".">>,
     <<"F", "u", "n", "c", "t", "i", "o", "n", " ", "c", "a", "l", "l", " ", "o", "u",
       "t", "p", "u", "t", " ", "i", "s", " ", "m", "i", "s", "s", "i", "n", "g", ".">>,
     <<"I", "n", "v", "a", "l", "i", "d", " ", "v", "a", "l", "u", "e", ".">>,
     <<>>}

OptionOf(strings) == {NoString} \cup {SomeString(x) : x \in strings}

Bodies ==
    {NotJson, NoErrorField}
      \cup {Envelope(d) : d \in [type : OptionOf(ErrorTypes), param : OptionOf(ErrorParams),
                                 message : OptionOf(ErrorMessages)]}

\* The TransportErrors converted: Http with and without a body, and the kinds
\* that carry nothing.
ConvertedErrors ==
    [kind : {"Http"}, status : {BAD_REQUEST, 404, 500}, url : {"https://a", "https://b"},
     headers : {"none", "some"}, has_body : {TRUE}, body : Bodies]
      \cup [kind : {"Http"}, status : {BAD_REQUEST, 500}, url : {"https://a"},
            headers : {"none"}, has_body : {FALSE}, body : {NotJson}]
      \cup [kind : {"Timeout", "Network", "RetryLimit", "Build"}, status : {0},
            url : {""}, headers : {""}, has_body : {FALSE}, body : {NotJson}]

ApiErrorFromArgs ==
    [f : {"ApiError_from"}, err : ConvertedErrors, done : {FALSE}, out : {NoApiError}]

ApiErrorFromCall == Apply("ApiError_from", ApiError_from(app.err))

----------------------------------------------------------------------------
(* codex-api/src/azure.rs: attach_item_ids_to_json                          *)

MaxItems == 2

\* Option<&str> of an id, the id being one word
NoId == [some |-> FALSE, s |-> ""]
SomeId(s) == [some |-> TRUE, s |-> s]

\* A ResponseItem, as far as extract_item_id reads it: its variant and id.
\* Reasoning carries a String, the variants named in extract_item_id an
\* Option<String>, the others (here FunctionCallOutput) are not matched.
ResponseItems ==
    [variant : {"Reasoning"}, id : {SomeId(""), SomeId("rs-1")}]
      \cup [variant : {"Message", "FunctionCall"},
            id : {NoId, SomeId(""), SomeId("msg-1")}]
      \cup [variant : {"FunctionCallOutput"}, id : {NoId}]

extract_item_id(item) ==
    IF item.variant \in {"Reasoning", "Message", "WebSearchCall", "FunctionCall",
                         "LocalShellCall", "CustomToolCall"}
    THEN item.id
    ELSE NoId

\* A JSON value of the input array: an object with or without an "id" key, or
\* a value that is no object.
JsonObject(id) == [object |-> TRUE, id |-> id]
JsonString == [object |-> FALSE, id |-> NoId]
JsonValues == {JsonObject(NoId), JsonObject(SomeId("old")), JsonString}

\* The payload: without "input", with an "input" that is no array, or with
\* the array.
NoInput == [input |-> "absent", items |-> <<>>]
InputNotArray == [input |-> "value", items |-> <<>>]
InputArray(items) == [input |-> "array", items |-> items]

SeqsUpTo(S, n) == UNION {[1..k -> S] : k \in 0..n}

\* Value::as_object_mut and Map::insert("id", ...) for one pair of the zip.
attach_item_id(value, item) ==
    LET id == extract_item_id(item) IN
    IF id.some /\ id.s # "" /\ value.object
    THEN [value EXCEPT !.id = SomeId(id.s)]
    ELSE value

\* attach_item_ids_to_json without the length check: the zip stops at the
\* shorter of the two.
attach_item_ids_to_json_unchecked(payload_json, original_items) ==
    IF payload_json.input # "array"
    THEN [panicked |-> FALSE, payload |-> payload_json]
    ELSE [panicked |-> FALSE,
          payload |-> InputArray(
              [i \in 1..Len(payload_json.items) |->
                  IF i <= Len(original_items)
                  THEN attach_item_id(payload_json.items[i], original_items[i])
                  ELSE payload_json.items[i]])]

\* attach_item_ids_to_json: what it leaves in payload_json, and whether it
\* panicked.
attach_item_ids_to_json(payload_json, original_items) ==
    IF payload_json.input # "array"
    THEN [panicked |-> FALSE, payload |-> payload_json]
    ELSE IF Len(payload_json.items) # Len(original_items)
    THEN [panicked |-> TRUE, payload |-> payload_json]
    ELSE [panicked |-> FALSE,
          payload |-> InputArray(
              [i \in 1..Len(payload_json.items) |->
                  attach_item_id(payload_json.items[i], original_items[i])])]

Payloads == {NoInput, InputNotArray} \cup {InputArray(a) : a \in SeqsUpTo(JsonValues, MaxItems)}

AttachItemIdsArgs ==
    [f : {"attach_item_ids_to_json"}, payload_json : Payloads,
     original_items : SeqsUpTo(ResponseItems, MaxItems), done : {FALSE},
     out : {[panicked |-> FALSE, payload |-> NoInput]}]

AttachItemIdsCall ==
    Apply("attach_item_ids_to_json",
          attach_item_ids_to_json(app.payload_json, app.original_items))

----------------------------------------------------------------------------
(* codex-api/src/provider.rs: Provider::url_for_path, and                   *)
(* core/src/azure.rs: build_azure_url.  A string is the sequence of its     *)
(* characters.                                                              *)

MaxParams == 2

\* str::trim_start_matches(c)
RECURSIVE trim_start_matches(_, _)
trim_start_matches(s, c) ==
    IF Len(s) > 0 /\ s[1] = c THEN trim_start_matches(Tail(s), c) ELSE s

\* str::trim_end_matches(c)
RECURSIVE trim_end_matches(_, _)
trim_end_matches(s, c) ==
    IF Len(s) > 0 /\ s[Len(s)] = c
    THEN trim_end_matches(SubSeq(s, 1, Len(s) - 1), c)
    ELSE s

\* str::find(c): the first position of c, 0 for None
find(s, c) ==
    IF \E i \in 1..Len(s) : s[i] = c
    THEN CHOOSE i \in 1..Len(s) : s[i] = c /\ \A j \in 1..(i - 1) : s[j] # c
    ELSE 0

ends_with_char(s, c) == Len(s) > 0 /\ s[Len(s)] = c

\* urlencoding::encode of one character: unreserved characters stay, the
\* others become their percent escape.
Escapes ==
    {<<" ", <<"%", "2", "0">>>>, <<"/", <<"%", "2", "F">>>>, <<"?", <<"%", "3", "F">>>>,
     <<"=", <<"%", "3", "D">>>>, <<"&", <<"%", "2", "6">>>>}

encode_char(c) ==
    IF \E e \in Escapes : e[1] = c
    THEN (CHOOSE e \in Escapes : e[1] = c)[2]
    ELSE <<c>>

\* urlencoding::encode
RECURSIVE encode(_)
encode(s) == IF s = <<>> THEN <<>> ELSE encode_char(Head(s)) \o encode(Tail(s))

\* [String]::join(sep)
RECURSIVE join(_, _)
join(parts, sep) ==
    IF Len(parts) = 0 THEN <<>>
    ELSE IF Len(parts) = 1 THEN parts[1]
    ELSE parts[1] \o sep \o join(Tail(parts), sep)

\* The orders in which a HashMap of these entries can be iterated.
Orders(entries) ==
    {o \in [1..Cardinality(entries) -> entries] :
        \A i, j \in 1..Cardinality(entries) : i # j => o[i] # o[j]}

\* Option<HashMap<String, String>>, a map being the set of its entries
NoParams == [some |-> FALSE, entries |-> {}]
SomeParams(entries) == [some |-> TRUE, entries |-> entries]

\* Provider::url_for_path for one iteration order of query_params
url_for_path_in_order(base_url, query_params, order, path0) ==
    LET path == trim_start_matches(path0, "/")
        idx == find(base_url, "?")
        base_path == IF idx > 0
                     THEN trim_end_matches(SubSeq(base_url, 1, idx - 1), "/")
                     ELSE trim_end_matches(base_url, "/")
        existing_query == IF idx > 0
                          THEN SubSeq(base_url, idx + 1, Len(base_url))
                          ELSE <<>>
        url == IF path = <<>> THEN base_path ELSE base_path \o <<"/">> \o path
        from_base == IF idx > 0 /\ existing_query # <<>>
                     THEN <<existing_query>> ELSE <<>>
        explicit == IF query_params.some /\ query_params.entries # {}
                    THEN <<join([i \in 1..Len(order) |->
                                    encode(order[i].k) \o <<"=">> \o encode(order[i].v)],
                                 <<"&">>)>>
                    ELSE <<>>
        all_params == from_base \o explicit
    IN  IF all_params # <<>>
        THEN url \o <<"?">> \o join(all_params, <<"&">>)
        ELSE url

\* Provider::url_for_path: the strings it can return
url_for_path(base_url, query_params, path) ==
    {url_for_path_in_order(base_url, query_params, o, path) :
        o \in Orders(query_params.entries)}

\* build_azure_url, given what provider.get_full_url(auth) returned
build_azure_url(base_with_query, suffix) ==
    LET idx == find(base_with_query, "?")
        base == IF idx > 0 THEN SubSeq(base_with_query, 1, idx - 1) ELSE base_with_query
        query == IF idx > 0
                 THEN <<"?">> \o SubSeq(base_with_query, idx + 1, Len(base_with_query))
                 ELSE <<>>
        url == IF ends_with_char(base, "/") THEN base ELSE base \o <<"/">>
    IN  url \o trim_start_matches(suffix, "/") \o query

\* The arguments: base paths with no, one and two trailing slashes, queries
\* empty, plain and holding a '?', paths with and without leading slashes.
BasePaths ==
    {<<"h">>, <<"h", "/">>, <<"h", "/", "/">>, <<"h", "/", "v">>}
Queries ==
    {<<>>, <<"a", "=", "1">>, <<"a", "?", "b">>}
Paths ==
    {<<"r">>, <<"/", "r">>, <<"/", "/", "r">>, <<"/">>, <<"r", "/", "x">>, <<"r", "?">>}
ParamEntries ==
    {[k |-> <<"k">>, v |-> <<"a", " ", "b">>], [k |-> <<"j", "?">>, v |-> <<"1">>]}
QueryParams ==
    {NoParams} \cup {SomeParams(e) : e \in {x \in SUBSET ParamEntries : Cardinality(x) <= MaxParams}}

\* The base URL of the arguments
BaseUrl(a) == IF a.has_query THEN a.base_path \o <<"?">> \o a.query ELSE a.base_path

UrlForPathArgs ==
    [f : {"url_for_path"}, base_path : BasePaths, has_query : BOOLEAN, query : Queries,
     query_params : QueryParams, path : Paths, done : {FALSE}, out : {<<>>}]

BuildAzureUrlArgs ==
    [f : {"build_azure_url"}, base_path : BasePaths, has_query : BOOLEAN, query : Queries,
     query_params : {NoParams}, path : Paths, done : {FALSE}, out : {<<>>}]

UrlForPathCall ==
    \E url \in url_for_path(BaseUrl(app), app.query_params, app.path) :
        Apply("url_for_path", url)

BuildAzureUrlCall ==
    Apply("build_azure_url", build_azure_url(BaseUrl(app), app.path))

----------------------------------------------------------------------------
(* codex-api/src/azure.rs: is_azure_base_url                                *)

AZURE_DOMAIN_SUFFIXES ==
    {<<".", "o", "p", "e", "n", "a", "i", ".", "a", "z", "u", "r", "e",
       ".", "c", "o", "m">>,
     <<".", "o", "p", "e", "n", "a", "i", ".", "a", "z", "u", "r", "e",
       ".", "u", "s">>,
     <<".", "o", "p", "e", "n", "a", "i", ".", "a", "z", "u", "r", "e",
       ".", "c", "n">>,
     <<".", "c", "o", "g", "n", "i", "t", "i", "v", "e", "s", "e", "r",
       "v", "i", "c", "e", "s", ".", "a", "z", "u", "r", "e", ".", "c",
       "o", "m">>,
     <<".", "c", "o", "g", "n", "i", "t", "i", "v", "e", "s", "e", "r",
       "v", "i", "c", "e", "s", ".", "a", "z", "u", "r", "e", ".", "u",
       "s">>,
     <<".", "c", "o", "g", "n", "i", "t", "i", "v", "e", "s", "e", "r",
       "v", "i", "c", "e", "s", ".", "a", "z", "u", "r", "e", ".", "c",
       "n">>,
     <<".", "a", "o", "a", "i", ".", "a", "z", "u", "r", "e", ".", "c",
       "o", "m">>}

\* "openai.azure."
OPENAI_AZURE ==
    <<"o", "p", "e", "n", "a", "i", ".", "a", "z", "u", "r", "e", ".">>

\* "cognitiveservices.azure."
COGNITIVESERVICES_AZURE ==
    <<"c", "o", "g", "n", "i", "t", "i", "v", "e", "s", "e", "r", "v", "i",
      "c", "e", "s", ".", "a", "z", "u", "r", "e", ".">>

\* str::ends_with
ends_with(s, pat) ==
    Len(s) >= Len(pat) /\ SubSeq(s, Len(s) - Len(pat) + 1, Len(s)) = pat

\* The first position of s that holds one of the characters, 0 when none does
find_any(s, chars) ==
    IF \E i \in 1..Len(s) : s[i] \in chars
    THEN CHOOSE i \in 1..Len(s) : s[i] \in chars /\ \A j \in 1..(i - 1) : s[j] \notin chars
    ELSE 0

\* The last position of c in s, 0 when there is none
rfind(s, c) ==
    IF \E i \in 1..Len(s) : s[i] = c
    THEN CHOOSE i \in 1..Len(s) : s[i] = c /\ \A j \in (i + 1)..Len(s) : s[j] # c
    ELSE 0

Letters == {UpperCase[i] : i \in 1..Len(UpperCase)} \cup {LowerCase[i] : i \in 1..Len(LowerCase)}

\* The characters of a URL scheme after its first letter
SchemeChars == Letters \cup Digits \cup {"+", "-", "."}

NoUrl == [ok |-> FALSE, host |-> NoString]

\* url::Url::parse, as far as host_str reads its result.  A URL is a scheme
\* and ':'; text without one is relative and does not parse.  After "//" the
\* authority runs to the first '/', '?' or '#'; the host is what is left of
\* it without the user information before the last '@' and the port after
\* the last ':'; it is lower-cased, and an empty one does not parse.  A URL
\* without "//" has no host.
Url_parse(input) ==
    LET colon == find(input, ":")
        scheme == SubSeq(input, 1, colon - 1)
        rest == SubSeq(input, colon + 1, Len(input))
    IN  IF colon <= 1 \/ scheme[1] \notin Letters
           \/ \E i \in 1..Len(scheme) : scheme[i] \notin SchemeChars
        THEN NoUrl
        ELSE IF ~starts_with(rest, <<"/", "/">>)
        THEN [ok |-> TRUE, host |-> NoString]
        ELSE LET after == SubSeq(rest, 3, Len(rest))
                 stop == find_any(after, {"/", "?", "#"})
                 authority == IF stop = 0 THEN after ELSE SubSeq(after, 1, stop - 1)
                 at == rfind(authority, "@")
                 hostport == SubSeq(authority, at + 1, Len(authority))
                 port == rfind(hostport, ":")
                 host == IF port = 0 THEN hostport ELSE SubSeq(hostport, 1, port - 1)
             IN  IF host = <<>> THEN NoUrl
                 ELSE [ok |-> TRUE, host |-> SomeString(to_ascii_lowercase(host))]

\* Url::host_str
host_str(url) == url.host

\* is_azure_base_url that looks for the markers in the whole text, as the
\* fallback does.
is_azure_base_url_by_text(base_url) ==
    LET base_lower == to_ascii_lowercase(base_url) IN
    contains(base_lower, OPENAI_AZURE) \/ contains(base_lower, COGNITIVESERVICES_AZURE)

\* is_azure_base_url
is_azure_base_url(base_url) ==
    LET url == Url_parse(base_url) IN
    IF ~url.ok
    THEN LET base_lower == to_ascii_lowercase(base_url) IN
         contains(base_lower, OPENAI_AZURE) \/ contains(base_lower, COGNITIVESERVICES_AZURE)
    ELSE IF ~host_str(url).some THEN FALSE
    ELSE LET host_lower == to_ascii_lowercase(host_str(url).s) IN
         \E suffix \in AZURE_DOMAIN_SUFFIXES : ends_with(host_lower, suffix)

\* The base URLs: a scheme or none, user information or none, a host, a port
\* or none, and what follows the authority.
UrlSchemes ==
    {<<"h", "t", "t", "p", "s", ":", "/", "/">>,
     <<"h", "t", "t", "p", ":", "/", "/">>,
     <<>>}

UrlUserInfos ==
    {<<>>,
     <<"u", "@">>,
     <<"x", ".", "o", "p", "e", "n", "a", "i", ".", "a", "z", "u", "r",
       "e", ".", "c", "o", "m", "@">>}

\* Hosts of Azure infrastructure that is not Azure OpenAI
ProxyHosts ==
    {<<"m", "y", "p", "r", "o", "x", "y", ".", "a", "z", "u", "r", "e",
       "w", "e", "b", "s", "i", "t", "e", "s", ".", "n", "e", "t">>,
     <<"f", "o", "o", ".", "o", "p", "e", "n", "a", "i", ".", "a", "z",
       "u", "r", "e", "-", "a", "p", "i", ".", "n", "e", "t">>,
     <<"f", "o", "o", ".", "z", "0", "1", ".", "a", "z", "u", "r", "e",
       "f", "d", ".", "n", "e", "t">>,
     <<"m", "y", "a", "c", "c", "o", "u", "n", "t", ".", "b", "l", "o",
       "b", ".", "c", "o", "r", "e", ".", "w", "i", "n", "d", "o", "w",
       "s", ".", "n", "e", "t">>}

UrlHosts ==
    ProxyHosts \cup
    {<<"f", "o", "o", ".", "o", "p", "e", "n", "a", "i", ".", "a", "z",
       "u", "r", "e", ".", "c", "o", "m">>,
     <<"f", "o", "o", ".", "o", "p", "e", "n", "a", "i", ".", "a", "z",
       "u", "r", "e", ".", "u", "s">>,
     <<"f", "o", "o", ".", "o", "p", "e", "n", "a", "i", ".", "a", "z",
       "u", "r", "e", ".", "c", "n">>,
     <<"f", "o", "o", ".", "c", "o", "g", "n", "i", "t", "i", "v", "e",
       "s", "e", "r", "v", "i", "c", "e", "s", ".", "a", "z", "u", "r",
       "e", ".", "c", "o", "m">>,
     <<"f", "o", "o", ".", "c", "o", "g", "n", "i", "t", "i", "v", "e",
       "s", "e", "r", "v", "i", "c", "e", "s", ".", "a", "z", "u", "r",
       "e", ".", "u", "s">>,
     <<"f", "o", "o", ".", "c", "o", "g", "n", "i", "t", "i", "v", "e",
       "s", "e", "r", "v", "i", "c", "e", "s", ".", "a", "z", "u", "r",
       "e", ".", "c", "n">>,
     <<"f", "o", "o", ".", "a", "o", "a", "i", ".", "a", "z", "u", "r",
       "e", ".", "c", "o", "m">>,
     <<"F", "O", "O", ".", "O", "p", "e", "n", "A", "I", ".", "A", "z",
       "u", "r", "e", ".", "C", "O", "M">>,
     <<"a", "p", "i", ".", "o", "p", "e", "n", "a", "i", ".", "c", "o",
       "m">>,
     <<"e", "x", "a", "m", "p", "l", "e", ".", "c", "o", "m">>,
     <<"o", "p", "e", "n", "a", "i", ".", "a", "z", "u", "r", "e", ".",
       "c", "o", "m">>,
     <<"f", "o", "o", "o", "p", "e", "n", "a", "i", ".", "a", "z", "u",
       "r", "e", ".", "c", "o", "m">>,
     <<"f", "o", "o", ".", "o", "p", "e", "n", "a", "i", ".", "a", "z",
       "u", "r", "e", ".", "c", "o", "m", ".", "e", "v", "i", "l", ".",
       "n", "e", "t">>}

UrlPorts ==
    {<<>>,
     <<":", "4", "4", "3">>}

UrlTails ==
    {<<>>,
     <<"/", "o", "p", "e", "n", "a", "i">>,
     <<"/", "x", ".", "o", "p", "e", "n", "a", "i", ".", "a", "z", "u",
       "r", "e", ".", "c", "o", "m">>,
     <<"?", "u", "=", ".", "a", "o", "a", "i", ".", "a", "z", "u", "r",
       "e", ".", "c", "o", "m">>}

UrlText(a) == a.scheme \o a.userinfo \o a.host \o a.port \o a.tail

IsAzureBaseUrlArgs ==
    [f : {"is_azure_base_url"}, scheme : UrlSchemes, userinfo : UrlUserInfos,
     host : UrlHosts, port : UrlPorts, tail : UrlTails, done : {FALSE}, out : {FALSE}]

IsAzureBaseUrlCall == Apply("is_azure_base_url", is_azure_base_url(UrlText(app)))

----------------------------------------------------------------------------
(* AdaptiveRateLimiter, as far as the coordinator reads it: current_rate.   *)
(* Rates are whole requests per second.                                     *)

INITIAL_RATE == 10   \* with_config, aggressive_throttling = false
MIN_RATE == 1
MAX_RATE == 50

NoValue == 0 - 1     \* None of an Option<u32> / Option<u64>

\* adjust_rate: clamp, then move only when the change exceeds 0.1; between
\* whole rates that is any change.
adjust_rate(rate, suggested_rate) ==
    LET new_rate == Max(MIN_RATE, Min(suggested_rate, MAX_RATE)) IN
    IF new_rate - rate > 0 \/ rate - new_rate > 0 THEN new_rate ELSE rate

\* update_from_headers, its effect on current_rate.
update_from_headers(rate, remaining_requests, reset_after_seconds) ==
    IF remaining_requests # NoValue /\ reset_after_seconds # NoValue
       /\ reset_after_seconds > 0
    THEN adjust_rate(rate, remaining_requests \div reset_after_seconds)
    ELSE rate

----------------------------------------------------------------------------
(* AdaptiveRateLimiter on its own, all its fields.  A rate is a whole       *)
(* number of PerSecond-ths of a request per second, so that remaining /     *)
(* reset is exact for the resets drawn and 0.1 is PerSecond / 10.           *)

PerSecond == 60
I64_MAX == 127       \* the seconds an Instant holds, on the scale of U64_MAX

\* AdaptiveRateLimiter::new.  got is what get_rate returned last, NoValue
\* before the first call; suggested is the last rate given to adjust_rate.
AdaptiveRateLimiter_new(initial_rate, min_rate, max_rate) ==
    [current_rate |-> initial_rate * PerSecond,
     min_rate |-> min_rate * PerSecond,
     max_rate |-> max_rate * PerSecond,
     remaining_requests |-> NoValue,
     remaining_tokens |-> NoValue,
     reset_time |-> NoValue,
     got |-> NoValue,
     suggested |-> NoValue]

\* The limiters the repository builds: with_config without and with
\* aggressive_throttling, and the one of test_adaptive_rate_limiter.
Limiters ==
    {AdaptiveRateLimiter_new(10, 1, 50), AdaptiveRateLimiter_new(5, 1, 30),
     AdaptiveRateLimiter_new(10, 1, 100)}

\* f64::clamp
clamp(x, lo, hi) == IF x < lo THEN lo ELSE IF x > hi THEN hi ELSE x

abs(x) == IF x < 0 THEN 0 - x ELSE x

\* adjust_rate that takes the suggested rate as it comes.
AdaptiveRateLimiter_adjust_rate_unclamped(l, suggested_rate) ==
    IF abs(suggested_rate - l.current_rate) * 10 > PerSecond
    THEN [l EXCEPT !.current_rate = suggested_rate, !.suggested = suggested_rate]
    ELSE [l EXCEPT !.suggested = suggested_rate]

\* adjust_rate
AdaptiveRateLimiter_adjust_rate(l, suggested_rate) ==
    LET new_rate == clamp(suggested_rate, l.min_rate, l.max_rate) IN
    IF abs(new_rate - l.current_rate) * 10 > PerSecond
    THEN [l EXCEPT !.current_rate = new_rate, !.suggested = suggested_rate]
    ELSE [l EXCEPT !.suggested = suggested_rate]

\* Instant::now() + Duration::from_secs(reset_seconds) panics when the sum
\* is beyond what an Instant holds.
InstantOverflows(t, secs) == t + secs > I64_MAX

\* update_from_headers.  A panic at the addition leaves the fields written
\* before it.
AdaptiveRateLimiter_update_from_headers(l, remaining_requests, remaining_tokens, reset_after_seconds, t) ==
    LET l1 == IF remaining_requests # NoValue
              THEN [l EXCEPT !.remaining_requests = remaining_requests] ELSE l
        l2 == IF remaining_tokens # NoValue
              THEN [l1 EXCEPT !.remaining_tokens = remaining_tokens] ELSE l1
        l3 == IF reset_after_seconds # NoValue
              THEN [l2 EXCEPT !.reset_time = t + reset_after_seconds] ELSE l2
    IN  IF reset_after_seconds # NoValue /\ InstantOverflows(t, reset_after_seconds)
        THEN l2
        ELSE IF remaining_requests # NoValue /\ reset_after_seconds # NoValue
                /\ reset_after_seconds > 0
             THEN AdaptiveRateLimiter_adjust_rate(
                      l3, (remaining_requests * PerSecond) \div reset_after_seconds)
             ELSE l3

\* get_rate
get_rate(l) == l.current_rate

RemainingRequests == {NoValue, 0, 5, 20, 101, 5000}
RemainingTokens == {NoValue, 999}
ResetSeconds == {NoValue, 0, 1, 10, U64_MAX}

UpdateFromHeaders(remaining_requests, remaining_tokens, reset_after_seconds) ==
    /\ limiter' = AdaptiveRateLimiter_update_from_headers(
                      limiter, remaining_requests, remaining_tokens,
                      reset_after_seconds, now)
    /\ UNCHANGED <<now, app, mu, pq, brVars, tbVars, rtVars, coVars>>

GetRate ==
    /\ limiter' = [limiter EXCEPT !.got = get_rate(limiter)]
    /\ UNCHANGED <<now, app, mu, pq, brVars, tbVars, rtVars, coVars>>

----------------------------------------------------------------------------
(* AzureOpenAIRateLimiter                                                  *)
(*                                                                         *)
(* The coordinator is built by with_config from a configuration with       *)
(* custom_limits for the one model hint, a breaker threshold and a breaker *)
(* timeout.  The clock unit is the minute, so a bucket of capacity c, whose *)
(* refill rate is c/60 per second, refills c per unit.                     *)
(*                                                                         *)
(* A TokenBucket is a handle on shared state (Arc): buckets maps a handle  *)
(* to the state, the two maps give each key its handle, and a task in      *)
(* acquire holds the handles of the clones it got.  State that neither a   *)
(* map nor a task refers to is dropped.                                    *)

Models == {"gpt-5"}          \* acquire(model, ..): key and hint are the model
Deployments == {"dep-a"}     \* acquire_for_deployment(deployment, hint, ..)
Keys == Models \cup Deployments
Hints == Models

ConfigTPM == 2               \* custom_limits: tokens_per_minute of the hint
ConfigRPM == 1               \* custom_limits: requests_per_minute of the hint
ConfigThreshold == 1         \* circuit_breaker_threshold
ConfigTimeout == 1           \* circuit_breaker_timeout_secs, in clock units
SUCCESS_THRESHOLD == 2       \* with_config passes 2 to CircuitBreaker::new
CoordMaxTime == 1            \* the coordinator's clock runs from 0 to CoordMaxTime
MaxEstimate == 3             \* estimated_tokens ranges over 1..MaxEstimate
MaxLimit == 2                \* x-ratelimit-limit-* values range over 1..MaxLimit
MaxCalls == 2                \* acquire calls of one task
MaxTotalCalls == 3           \* acquire calls, all tasks together
MaxResizes == 1              \* responses that carry a limit header
MaxActual == 3               \* actual.total_tokens ranges over 0..MaxActual
NumCoordTasks == 2           \* tasks that may call acquire

CoordTasks == 1..NumCoordTasks
\* Room for every bucket state that can be alive at once: two per key in the
\* maps, two clones per task, one being created.
Slots == 1..(Cardinality(Keys) + Cardinality(Keys) + NumCoordTasks + NumCoordTasks + 1)

NoContext == [bucket_key |-> "none", model_hint |-> "none"]
Dropped == [capacity |-> 0, tokens |-> 0, refill_rate |-> 0, last_refill |-> 0]

ModelRateLimits(tpm, rpm) == [tokens_per_minute |-> tpm, requests_per_minute |-> rpm]

\* The request permit taken before the tokens.
request_first == <<"req", "tok">>

\* The order in which acquire takes its two permits: the tokens, then the
\* request.
acquire_order == <<"tok", "req">>

\* A task that is in no call.  The fields from result on are history: what the
\* task's acquire has done and, at "returned", what it returned.
IdleCo ==
    [pc |-> "idle", dep |-> "none", hint |-> "none", est |-> 0,
     tok |-> 0, req |-> 0, phase |-> 0, attempts |-> 0, wake |-> 0,
     result |-> "none",   \* Ok, ErrCircuit, ErrCapacity, ErrToken, ErrRequest, Cancelled
     sawOpen |-> FALSE,   \* is_allowed was called with the breaker Open, cool-down running
     over |-> FALSE,      \* the pre-check read a capacity below est
     paced |-> 0,         \* pacer sleeps begun
     waits |-> 0,         \* bucket sleeps begun
     made |-> 0,          \* buckets created
     gotTok |-> FALSE,    \* token_bucket.acquire returned Ok
     tokDebit |-> 0,      \* what the call took from its token bucket
     reqDebit |-> 0,      \* what the call took from its request bucket
     actual |-> 0,        \* reconcile_after_completed: actual.total_tokens
     had |-> 0,           \* level of the key's token bucket before the refund / debit
     reqHad |-> Dropped]  \* the key's request bucket before the refund / debit

\* update_from_response when it is not running.  respFor is history: the
\* deployment whose response is being processed.
IdleResp ==
    [pc |-> "idle", ctx |-> NoContext, lt |-> NoValue, lr |-> NoValue,
     respFor |-> "none"]

\* acquire returns: its locals are dropped, the caller has the result.
Returned(task, result) ==
    [task EXCEPT !.pc = "returned", !.result = result,
                 !.tok = 0, !.req = 0, !.phase = 0, !.attempts = 0, !.wake = 0]

\* The return of acquire and what its caller does with the result are one
\* instant: while a task is at "returned" no other step is taken.
Quiet == \A t \in CoordTasks : co[t].pc # "returned"

\* The bucket states that a map or a task's clone still refers to.
Collect(heap, tmap, rmap, tasks) ==
    [s \in Slots |->
        IF \/ \E k \in Keys : tmap[k] = s \/ rmap[k] = s
           \/ \E t \in CoordTasks : tasks[t].tok = s \/ tasks[t].req = s
        THEN heap[s] ELSE Dropped]

FirstFree(heap) ==
    CHOOSE s \in Slots : heap[s] = Dropped /\ \A r \in 1..(s - 1) : heap[r] # Dropped

RECURSIVE TotalCalls(_, _)
TotalCalls(c, tasks) ==
    IF tasks = {} THEN 0
    ELSE LET t == CHOOSE x \in tasks : TRUE IN c[t] + TotalCalls(c, tasks \ {t})

CoordOthers == <<brVars, tbVars, rtVars, fnVars>>
limVars == <<last_context, model_limits, current_rate, resizes, calls, inflight, resp>>
mapVars == <<buckets, token_buckets, request_buckets>>

CoordTick ==
    /\ Quiet
    /\ now < CoordMaxTime
    /\ now' = now + 1
    /\ UNCHANGED <<brVars, tbVars, rtVars, fnVars, coVars>>

\* acquire / acquire_for_deployment begin: the context is recorded.
AcqStart(t, deployment, model_hint, estimated_tokens) ==
    /\ Quiet
    /\ co[t].pc = "idle"
    /\ calls[t] < MaxCalls
    /\ TotalCalls(calls, CoordTasks) < MaxTotalCalls
    /\ calls' = [calls EXCEPT ![t] = @ + 1]
    /\ last_context' = [bucket_key |-> deployment, model_hint |-> model_hint]
    /\ co' = [co EXCEPT ![t] =
                [IdleCo EXCEPT !.pc = "breaker", !.dep = deployment,
                               !.hint = model_hint, !.est = estimated_tokens]]
    /\ UNCHANGED <<now, model_limits, mapVars, current_rate, resizes, inflight, resp,
                   CoordOthers>>

Acquire(t, model, estimated_tokens) ==
    AcqStart(t, model, model, estimated_tokens)

AcquireForDeployment(t, deployment, model_hint, estimated_tokens) ==
    AcqStart(t, deployment, model_hint, estimated_tokens)

\* if !self.circuit_breaker.is_allowed().await { return Err(..) }
AcqBreaker(t) ==
    /\ Quiet
    /\ co[t].pc = "breaker"
    /\ LET r == is_allowed(cb, now) IN
       /\ cb' = r.cb
       /\ co' = [co EXCEPT ![t] =
            LET seen == [@ EXCEPT !.sawOpen = (cb.state = "Open" /\ now < cb.until)] IN
            IF r.ok THEN [seen EXCEPT !.pc = "rate"]
            ELSE Returned(seen, "ErrCircuit")]
    /\ UNCHANGED <<now, cbLast, cbConsec, cbSucc, tbVars, rtVars, fnVars, limVars, mapVars>>

\* get_rate; if current_rate > 0.0 the pacing sleep of 1/current_rate begins.
AcqGetRate(t) ==
    /\ Quiet
    /\ co[t].pc = "rate"
    /\ co' = [co EXCEPT ![t] =
                IF current_rate > 0
                THEN [@ EXCEPT !.pc = "pacing", !.paced = @ + 1]
                ELSE [@ EXCEPT !.pc = "getBuckets"]]
    /\ UNCHANGED <<now, limVars, mapVars, CoordOthers>>

\* The pacing sleep (at most a second) is over.
AcqPaced(t) ==
    /\ Quiet
    /\ co[t].pc = "pacing"
    /\ co' = [co EXCEPT ![t].pc = "getBuckets"]
    /\ UNCHANGED <<now, limVars, mapVars, CoordOthers>>

\* get_token_bucket_for_key / get_request_bucket_for_key on one of the two
\* maps: the handle registered for the key, or a bucket created from the
\* hint's limit.  The result: the heap, the map, the handle.
get_bucket_for_key(heap, map, bucket_key, limit, t) ==
    IF map[bucket_key] = 0
    THEN LET h == FirstFree(heap) IN
         [heap |-> [heap EXCEPT ![h] = TokenBucket_new(limit, limit, t)],
          map |-> [map EXCEPT ![bucket_key] = h],
          handle |-> h, made |-> 1]
    ELSE [heap |-> heap, map |-> map, handle |-> map[bucket_key], made |-> 0]

\* let token_bucket = ..; let request_bucket = ..;
AcqGetBuckets(t) ==
    /\ Quiet
    /\ co[t].pc = "getBuckets"
    /\ LET rt1 == get_bucket_for_key(buckets, token_buckets, co[t].dep,
                                     model_limits[co[t].hint].tokens_per_minute, now)
           rr1 == get_bucket_for_key(rt1.heap, request_buckets, co[t].dep,
                                     model_limits[co[t].hint].requests_per_minute, now) IN
       /\ buckets' = rr1.heap
       /\ token_buckets' = rt1.map
       /\ request_buckets' = rr1.map
       /\ co' = [co EXCEPT ![t].pc = "available", ![t].tok = rt1.handle,
                           ![t].req = rr1.handle,
                           ![t].made = @ + rt1.made + rr1.made]
    /\ UNCHANGED <<now, limVars, CoordOthers>>

\* token_bucket.available_tokens() and request_bucket.available_tokens(), read
\* for the log line only: what remains is the two refills.
AcqAvailable(t) ==
    /\ Quiet
    /\ co[t].pc = "available"
    /\ buckets' = [buckets EXCEPT ![co[t].tok] = refill(@, now),
                                  ![co[t].req] = refill(@, now)]
    /\ co' = [co EXCEPT ![t].pc = "precheck"]
    /\ UNCHANGED <<now, limVars, token_buckets, request_buckets, CoordOthers>>

\* The guard: estimated_tokens > capacity, the hint's tokens_per_minute.
exceeds_capacity(limits, model_hint, estimated_tokens) ==
    estimated_tokens > limits[model_hint].tokens_per_minute

AcqPrecheck(t) ==
    /\ Quiet
    /\ co[t].pc = "precheck"
    /\ co' = [co EXCEPT ![t] =
            LET seen == [@ EXCEPT !.over =
                           (co[t].est > model_limits[co[t].hint].tokens_per_minute)] IN
            IF exceeds_capacity(model_limits, co[t].hint, co[t].est)
            THEN Returned(seen, "ErrCapacity")
            ELSE [seen EXCEPT !.pc = "check", !.phase = 1]]
    /\ buckets' = Collect(buckets, token_buckets, request_buckets, co')
    /\ UNCHANGED <<now, limVars, token_buckets, request_buckets, CoordOthers>>

\* The bucket and the amount of the TokenBucket::acquire the task is in.
Handle(task) == IF acquire_order[task.phase] = "tok" THEN task.tok ELSE task.req
Amount(task) == IF acquire_order[task.phase] = "tok" THEN task.est ELSE 1

\* What the coordinator does when one TokenBucket::acquire has returned Ok:
\* the next acquire of acquire_order, or Ok.
after_permit(task) ==
    LET which == acquire_order[task.phase]
        got == IF which = "tok"
               THEN [task EXCEPT !.gotTok = TRUE, !.tokDebit = @ + task.est]
               ELSE [task EXCEPT !.reqDebit = @ + 1]
    IN IF task.phase < Len(acquire_order)
       THEN [got EXCEPT !.pc = "check", !.phase = @ + 1, !.attempts = 0]
       ELSE Returned(got, "Ok")

\* One turn of the loop of TokenBucket::acquire on the task's bucket: the
\* refill, then the test under the tokens lock: debit, give up (map_err and
\* ?), or sleep.
AcqCheck(t) ==
    /\ Quiet
    /\ co[t].pc = "check"
    /\ LET h == Handle(co[t])
           r == try_acquire(refill(buckets[h], now), Amount(co[t])) IN
       /\ co' = [co EXCEPT ![t] =
            IF r.ok THEN after_permit(@)
            ELSE IF @.attempts >= MAX_ATTEMPTS
                 THEN Returned(@, IF acquire_order[@.phase] = "tok"
                                  THEN "ErrToken" ELSE "ErrRequest")
                 ELSE [@ EXCEPT !.pc = "sleep", !.wake = now + r.wait,
                                !.waits = @ + 1]]
       /\ buckets' = Collect([buckets EXCEPT ![h] = r.bucket],
                             token_buckets, request_buckets, co')
    /\ UNCHANGED <<now, limVars, token_buckets, request_buckets, CoordOthers>>

AcqWake(t) ==
    /\ Quiet
    /\ co[t].pc = "sleep"
    /\ now >= co[t].wake
    /\ co' = [co EXCEPT ![t].pc = "check", ![t].attempts = @ + 1]
    /\ UNCHANGED <<now, limVars, mapVars, CoordOthers>>

\* The caller has the result: after Ok its request is sent.
Resume(t) ==
    /\ co[t].pc = "returned"
    /\ inflight' = IF co[t].result = "Ok" THEN inflight \cup {co[t].dep} ELSE inflight
    /\ co' = [co EXCEPT ![t] = IdleCo]
    /\ UNCHANGED <<now, last_context, model_limits, current_rate, resizes, calls, resp,
                   mapVars, CoordOthers>>

\* The caller drops the future of acquire while it sleeps: in the pacing
\* sleep or in a bucket wait.  Nothing runs on the drop.
Cancel(t) ==
    /\ Quiet
    /\ co[t].pc \in {"pacing", "sleep"}
    /\ co' = [co EXCEPT ![t] = Returned(@, "Cancelled")]
    /\ buckets' = Collect(buckets, token_buckets, request_buckets, co')
    /\ UNCHANGED <<now, limVars, token_buckets, request_buckets, CoordOthers>>

\* A reconcile that refunds whatever the sign of the delta.
reconcile_refund_only(b, estimated_tokens, actual_total) ==
    refund(b, estimated_tokens - actual_total)

\* reconcile_after_completed on the bucket it obtained: delta > 0 is refunded,
\* delta < 0 is debited, delta = 0 does nothing.
reconcile_after_completed(b, estimated_tokens, actual_total) ==
    LET delta == estimated_tokens - actual_total IN
    IF delta > 0 THEN refund(b, delta)
    ELSE IF delta < 0 THEN force_debit(b, 0 - delta)
    ELSE b

\* reconcile_after_completed begins, for a request that was admitted:
\* get_token_bucket_for_key hands out a clone of the key's bucket (created
\* full from the hint's limits when the map has none).
ReconcileStart(t, bucket_key, model_hint, estimated_tokens, actual_total) ==
    /\ Quiet
    /\ co[t].pc = "idle"
    /\ bucket_key \in inflight
    /\ calls[t] < MaxCalls
    /\ TotalCalls(calls, CoordTasks) < MaxTotalCalls
    /\ calls' = [calls EXCEPT ![t] = @ + 1]
    /\ LET r == get_bucket_for_key(buckets, token_buckets, bucket_key,
                                   model_limits[model_hint].tokens_per_minute, now)
       IN /\ token_buckets' = r.map
          /\ co' = [co EXCEPT ![t] =
                      [IdleCo EXCEPT !.pc = "reconcile", !.dep = bucket_key,
                                     !.hint = model_hint, !.est = estimated_tokens,
                                     !.actual = actual_total, !.tok = r.handle]]
          /\ buckets' = Collect(r.heap, r.map, request_buckets, co')
    /\ UNCHANGED <<now, last_context, model_limits, request_buckets, current_rate,
                   resizes, inflight, resp, CoordOthers>>

\* The refund or the forced debit, on the clone obtained at the start.
ReconcileApply(t) ==
    /\ Quiet
    /\ co[t].pc = "reconcile"
    /\ LET heap == [buckets EXCEPT ![co[t].tok] =
                       reconcile_after_completed(@, co[t].est, co[t].actual)]
       IN /\ co' = [co EXCEPT ![t] =
                      [Returned(@, "Reconciled") EXCEPT
                          !.had = buckets[token_buckets[co[t].dep]].tokens,
                          !.reqHad = buckets[request_buckets[co[t].dep]]]]
          /\ buckets' = Collect(heap, token_buckets, request_buckets, co')
    /\ UNCHANGED <<now, limVars, token_buckets, request_buckets, CoordOthers>>

\* The headers of a response that the coordinator parses.
Headers ==
    [remaining_requests : {NoValue, 0}, reset_requests : {NoValue, 1},
     reset_tokens : {NoValue, 2},
     limit_requests : {NoValue} \cup 1..MaxLimit,
     limit_tokens : {NoValue} \cup 1..MaxLimit]

\* "Use the most restrictive reset time"
reset_seconds(reset_requests, reset_tokens) ==
    CASE reset_requests # NoValue /\ reset_tokens # NoValue ->
            Max(reset_requests, reset_tokens)
      [] reset_requests # NoValue -> reset_requests
      [] reset_tokens # NoValue -> reset_tokens
      [] OTHER -> NoValue

\* update_from_response(headers) for the response to a request sent to
\* deployment.  The pacer is fed; with a limit header and a recorded context,
\* apply_dynamic_limits follows.
UpdateFromResponse(deployment, headers) ==
    /\ Quiet
    /\ deployment \in inflight
    /\ resp.pc = "idle"
    /\ LET limits == headers.limit_requests # NoValue \/ headers.limit_tokens # NoValue IN
       /\ limits => resizes < MaxResizes
       /\ resizes' = IF limits THEN resizes + 1 ELSE resizes
       /\ current_rate' = update_from_headers(current_rate, headers.remaining_requests,
                             reset_seconds(headers.reset_requests, headers.reset_tokens))
       /\ resp' = IF limits /\ last_context # NoContext
                  THEN [pc |-> "limits", ctx |-> last_context,
                        lt |-> headers.limit_tokens, lr |-> headers.limit_requests,
                        respFor |-> deployment]
                  ELSE resp
    /\ UNCHANGED <<now, last_context, model_limits, mapVars, co, calls, inflight,
                   CoordOthers>>

\* apply_dynamic_limits, "Update defaults": the hint's limits are replaced.
new_limits(limits, limit_tokens, limit_requests) ==
    ModelRateLimits(IF limit_tokens # NoValue THEN limit_tokens
                    ELSE limits.tokens_per_minute,
                    IF limit_requests # NoValue THEN limit_requests
                    ELSE limits.requests_per_minute)

ApplyLimits ==
    /\ Quiet
    /\ resp.pc = "limits"
    /\ model_limits' = [model_limits EXCEPT ![resp.ctx.model_hint] =
                          new_limits(@, resp.lt, resp.lr)]
    /\ resp' = [resp EXCEPT !.pc = "resizeTok"]
    /\ UNCHANGED <<now, last_context, mapVars, co, current_rate, resizes, calls,
                   inflight, CoordOthers>>

\* A resize that registers a bucket for a key that had none.
resize_creating(heap, map, bucket_key, limit, t) ==
    IF limit # NoValue
    THEN LET n == FirstFree(heap)
             level == IF map[bucket_key] # 0
                      THEN Min(refill(heap[map[bucket_key]], t).tokens, limit)
                      ELSE limit
         IN [heap |-> [heap EXCEPT ![n] = force_debit(TokenBucket_new(limit, limit, t),
                                                     limit - level)],
             map |-> [map EXCEPT ![bucket_key] = n]]
    ELSE [heap |-> heap, map |-> map]

\* A resize that leaves the new bucket full.
resize_full(heap, map, bucket_key, limit, t) ==
    IF limit # NoValue /\ map[bucket_key] # 0
    THEN LET h == map[bucket_key]
             old == refill(heap[h], t)
             cap == limit
             n == FirstFree(heap)
         IN [heap |-> [heap EXCEPT ![h] = old, ![n] = TokenBucket_new(cap, cap, t)],
             map |-> [map EXCEPT ![bucket_key] = n]]
    ELSE [heap |-> heap, map |-> map]

\* apply_dynamic_limits, the resize of one map's bucket for ctx.bucket_key:
\* old.available_tokens() refills the old bucket; the new one is created full
\* and debited down to min(old_avail, cap).
resize(heap, map, bucket_key, limit, t) ==
    IF limit # NoValue /\ map[bucket_key] # 0
    THEN LET h == map[bucket_key]
             old == refill(heap[h], t)
             old_avail == old.tokens
             cap == limit
             new_bucket == TokenBucket_new(cap, cap, t)
             target == Min(old_avail, cap)
             debit == Max(cap - target, 0)
             n == FirstFree(heap)
         IN [heap |-> [heap EXCEPT ![h] = old, ![n] = force_debit(new_bucket, debit)],
             map |-> [map EXCEPT ![bucket_key] = n]]
    ELSE [heap |-> heap, map |-> map]

ResizeTokenBucket ==
    /\ Quiet
    /\ resp.pc = "resizeTok"
    /\ LET r == resize(buckets, token_buckets, resp.ctx.bucket_key, resp.lt, now) IN
       /\ token_buckets' = r.map
       /\ buckets' = Collect(r.heap, r.map, request_buckets, co)
    /\ resp' = [resp EXCEPT !.pc = "resizeReq"]
    /\ UNCHANGED <<now, last_context, model_limits, request_buckets, co, current_rate,
                   resizes, calls, inflight, CoordOthers>>

\* The second resize ends update_from_response.
ResizeRequestBucket ==
    /\ Quiet
    /\ resp.pc = "resizeReq"
    /\ LET r == resize(buckets, request_buckets, resp.ctx.bucket_key, resp.lr, now) IN
       /\ request_buckets' = r.map
       /\ buckets' = Collect(r.heap, token_buckets, r.map, co)
    /\ resp' = IdleResp
    /\ UNCHANGED <<now, last_context, model_limits, token_buckets, co, current_rate,
                   resizes, calls, inflight, CoordOthers>>

\* record_success / record_failure of the coordinator forward to the breaker;
\* the caller reports the outcome of a request it had sent.
CoordRecordSuccess(deployment) ==
    /\ Quiet
    /\ deployment \in inflight
    /\ cb' = record_success(cb)
    /\ inflight' = inflight \ {deployment}
    /\ UNCHANGED <<now, cbLast, cbConsec, cbSucc, tbVars, rtVars, fnVars, last_context, model_limits,
                   mapVars, current_rate, co, resizes, calls, resp>>

CoordRecordFailure(deployment) ==
    /\ Quiet
    /\ deployment \in inflight
    /\ cb' = record_failure(cb, now)
    /\ inflight' = inflight \ {deployment}
    /\ UNCHANGED <<now, cbLast, cbConsec, cbSucc, tbVars, rtVars, fnVars, last_context, model_limits,
                   mapVars, current_rate, co, resizes, calls, resp>>

CoordIdle ==
    /\ last_context = NoContext
    /\ model_limits = [h \in Hints |-> ModelRateLimits(ConfigTPM, ConfigRPM)]
    /\ buckets = [s \in Slots |-> Dropped]
    /\ token_buckets = [k \in Keys |-> 0]
    /\ request_buckets = [k \in Keys |-> 0]
    /\ current_rate = INITIAL_RATE
    /\ co = [t \in CoordTasks |-> IdleCo]
    /\ resizes = 0
    /\ calls = [t \in CoordTasks |-> 0]
    /\ inflight = {}
    /\ resp = IdleResp

----------------------------------------------------------------------------
(* Specifications                                                          *)

InitBreaker ==
    /\ now = 0
    /\ cb \in {CircuitBreaker_new(f, s, d) :
                 f \in 1..MaxThreshold, s \in 1..MaxThreshold, d \in 0..MaxTimeout}
    /\ cbLast = NoCall(cb)
    /\ cbConsec = 0
    /\ cbSucc = 0
    /\ BucketIdle
    /\ RetryIdle
    /\ CoordIdle
    /\ FnIdle

NextBreaker == Tick \/ IsAllowedCall \/ RecordSuccess \/ RecordFailure

SpecBreaker == InitBreaker /\ [][NextBreaker]_vars

InitBucket ==
    /\ now = 0
    /\ tb \in {TokenBucket_new(c, r, 0) : c \in 1..MaxCapacity, r \in 1..MaxRefill}
    /\ tbTask = [t \in BucketTasks |-> IdleTask]
    /\ tbLast = [op |-> "new", arg |-> 0]
    /\ BreakerIdle
    /\ RetryIdle
    /\ CoordIdle
    /\ FnIdle

NextBucket ==
    \/ Tick
    \/ \E t \in BucketTasks, n \in 0..MaxNeed : AcquireCall(t, n)
    \/ \E t \in BucketTasks : AcquireRefill(t)
    \/ \E t \in BucketTasks : AcquireCheck(t)
    \/ \E t \in BucketTasks : AcquireWake(t)
    \/ \E t \in BucketTasks : AvailableCall(t)
    \/ \E t \in BucketTasks : AvailableRead(t)
    \/ \E n \in -1..MaxNeed : Refund(n)
    \/ \E n \in -1..MaxNeed : ForceDebit(n)

SpecBucket == InitBucket /\ [][NextBucket]_vars

\* One task acquires from a bucket that nobody else debits; the others read
\* the level and refund.  The runtime runs a task that can take a step, and
\* time passes.
Acquirer == CHOOSE t \in BucketTasks : TRUE

NextAlone ==
    \/ SleepTick
    \/ \E n \in 1..MaxNeed : TimedAcquireCall(Acquirer, n)
    \/ AcquireRefill(Acquirer)
    \/ AcquireCheck(Acquirer)
    \/ AcquireWake(Acquirer)
    \/ \E t \in BucketTasks \ {Acquirer} : AvailableCall(t)
    \/ \E t \in BucketTasks \ {Acquirer} : AvailableRead(t)
    \/ \E n \in 1..MaxNeed : RefundDuring(n)

\* Tasks that acquire against each other, on the buckets of InitBucket and
\* on the one a limit of 0 gives: TokenBucket::new(0.0, 0.0 / 60.0).
InitStarve ==
    /\ now = 0
    /\ tb \in {TokenBucket_new(c, r, 0) : c \in 1..MaxCapacity, r \in 1..MaxRefill}
                \cup {TokenBucket_new(0, 0, 0)}
    /\ tbTask = [t \in BucketTasks |-> IdleTask]
    /\ tbLast = [op |-> "new", arg |-> 0]
    /\ BreakerIdle
    /\ RetryIdle
    /\ CoordIdle
    /\ FnIdle

NextStarve ==
    \/ SleepTick
    \/ \E t \in BucketTasks, n \in 1..MaxNeed : BoundedAcquireCall(t, n)
    \/ \E t \in BucketTasks : AcquireRefill(t)
    \/ \E t \in BucketTasks : AcquireCheck(t)
    \/ \E t \in BucketTasks : AcquireWake(t)

SpecStarve ==
    /\ InitStarve /\ [][NextStarve]_vars
    /\ WF_vars(SleepTick)
    /\ \A t \in BucketTasks :
          WF_vars(AcquireRefill(t)) /\ WF_vars(AcquireCheck(t)) /\ WF_vars(AcquireWake(t))

SpecAlone ==
    /\ InitBucket /\ [][NextAlone]_vars
    /\ WF_vars(SleepTick)
    /\ WF_vars(AcquireRefill(Acquirer))
    /\ WF_vars(AcquireCheck(Acquirer))
    /\ WF_vars(AcquireWake(Acquirer))

InitRetry ==
    /\ now = 0
    /\ rt \in {RetryStart(p) : p \in RetryPolicies}
    /\ BreakerIdle
    /\ BucketIdle
    /\ CoordIdle
    /\ FnIdle

NextRetry ==
    \/ MakeReq
    \/ \E o \in OpOutcomes : OpReturns(o)
    \/ RetrySleepOver

SpecRetry == InitRetry /\ [][NextRetry]_vars

\* with_config: no bucket yet, no context, the breaker Closed.
InitCoord ==
    /\ now = 0
    /\ cb = CircuitBreaker_new(ConfigThreshold, SUCCESS_THRESHOLD, ConfigTimeout)
    /\ cbLast = NoCall(cb)
    /\ cbConsec = 0
    /\ cbSucc = 0
    /\ CoordIdle
    /\ BucketIdle
    /\ RetryIdle
    /\ FnIdle

\* One caller and the responses to its requests: every operation of the
\* coordinator.
Solo == {CHOOSE t \in CoordTasks : TRUE}

NextCoord ==
    \/ CoordTick
    \/ \E d \in Keys : CoordRecordSuccess(d)
    \/ \E d \in Keys : CoordRecordFailure(d)
    \/ \E t \in Solo, m \in Models, e \in 1..MaxEstimate : Acquire(t, m, e)
    \/ \E t \in Solo, d \in Deployments, h \in Hints, e \in 1..MaxEstimate :
          AcquireForDeployment(t, d, h, e)
    \/ \E t \in Solo : AcqBreaker(t)
    \/ \E t \in Solo : AcqGetRate(t)
    \/ \E t \in Solo : AcqPaced(t)
    \/ \E t \in Solo : AcqGetBuckets(t)
    \/ \E t \in Solo : AcqAvailable(t)
    \/ \E t \in Solo : AcqPrecheck(t)
    \/ \E t \in Solo : AcqCheck(t)
    \/ \E t \in Solo : AcqWake(t)
    \/ \E t \in Solo : Resume(t)
    \/ \E t \in Solo : Cancel(t)
    \/ \E d \in Keys, h \in Headers : UpdateFromResponse(d, h)
    \/ ApplyLimits
    \/ ResizeTokenBucket
    \/ ResizeRequestBucket

SpecCoord == InitCoord /\ [][NextCoord]_vars

\* Several callers contending for the buckets of a coordinator whose limits
\* stay as configured and whose requests, once admitted, succeed.
NextContend ==
    \/ CoordTick
    \/ \E d \in Keys : CoordRecordSuccess(d)
    \/ \E t \in CoordTasks, m \in Models, e \in 1..MaxEstimate : Acquire(t, m, e)
    \/ \E t \in CoordTasks, d \in Deployments, h \in Hints, e \in 1..MaxEstimate :
          AcquireForDeployment(t, d, h, e)
    \/ \E t \in CoordTasks : AcqBreaker(t)
    \/ \E t \in CoordTasks : AcqGetRate(t)
    \/ \E t \in CoordTasks : AcqPaced(t)
    \/ \E t \in CoordTasks : AcqGetBuckets(t)
    \/ \E t \in CoordTasks : AcqAvailable(t)
    \/ \E t \in CoordTasks : AcqPrecheck(t)
    \/ \E t \in CoordTasks : AcqCheck(t)
    \/ \E t \in CoordTasks : AcqWake(t)
    \/ \E t \in CoordTasks : Resume(t)
    \/ \E t \in CoordTasks : Cancel(t)

SpecContend == InitCoord /\ [][NextContend]_vars

\* One caller that reconciles the estimates of its admitted requests while
\* the responses to them are processed.
NextReconcile ==
    \/ CoordTick
    \/ \E t \in Solo, m \in Models, e \in 1..MaxEstimate : Acquire(t, m, e)
    \/ \E t \in Solo : AcqBreaker(t)
    \/ \E t \in Solo : AcqGetRate(t)
    \/ \E t \in Solo : AcqPaced(t)
    \/ \E t \in Solo : AcqGetBuckets(t)
    \/ \E t \in Solo : AcqAvailable(t)
    \/ \E t \in Solo : AcqPrecheck(t)
    \/ \E t \in Solo : AcqCheck(t)
    \/ \E t \in Solo : AcqWake(t)
    \/ \E t \in Solo : Resume(t)
    \/ \E t \in Solo, k \in Keys, h \in Hints, e \in 0..MaxEstimate, a \in 0..MaxActual :
          ReconcileStart(t, k, h, e, a)
    \/ \E t \in Solo : ReconcileApply(t)
    \/ \E d \in Keys, h \in Headers : UpdateFromResponse(d, h)
    \/ ApplyLimits
    \/ ResizeTokenBucket
    \/ ResizeRequestBucket

SpecReconcile == InitCoord /\ [][NextReconcile]_vars

\* Responses that advertise a token limit, up to one above the configured
\* one, and nothing else.
TokenLimitHeaders ==
    [remaining_requests : {NoValue}, reset_requests : {NoValue},
     reset_tokens : {NoValue}, limit_requests : {NoValue},
     limit_tokens : {NoValue} \cup 1..(ConfigTPM + 1)]

\* One caller on the model key and on a deployment key that share the model
\* hint, while the limit of the hint moves with the responses.
NextShare ==
    \/ CoordTick
    \/ \E t \in Solo, m \in Models, e \in 1..MaxEstimate : Acquire(t, m, e)
    \/ \E t \in Solo, d \in Deployments, h \in Hints, e \in 1..MaxEstimate :
          AcquireForDeployment(t, d, h, e)
    \/ \E t \in Solo : AcqBreaker(t)
    \/ \E t \in Solo : AcqGetRate(t)
    \/ \E t \in Solo : AcqPaced(t)
    \/ \E t \in Solo : AcqGetBuckets(t)
    \/ \E t \in Solo : AcqAvailable(t)
    \/ \E t \in Solo : AcqPrecheck(t)
    \/ \E t \in Solo : AcqCheck(t)
    \/ \E t \in Solo : AcqWake(t)
    \/ \E t \in Solo : Resume(t)
    \/ \E d \in Keys, h \in TokenLimitHeaders : UpdateFromResponse(d, h)
    \/ ApplyLimits
    \/ ResizeTokenBucket
    \/ ResizeRequestBucket

SpecShare == InitCoord /\ [][NextShare]_vars

----------------------------------------------------------------------------
(* The mutexes of one coordinator.  A call is the sequence of lock, unlock *)
(* and sleep steps it makes; where the code branches the branch that takes *)
(* the most mutexes is the one followed.  A guard is released where Rust   *)
(* drops it: a temporary at the end of its statement, a binding at the end *)
(* of its block, the temporary of an `if let` scrutinee after the block.   *)
(* The buckets of one map share one pair of mutexes: a replaced bucket and *)
(* its replacement are never locked together.                              *)

NumLockTasks == 2
LockTasks == 1..NumLockTasks

Mutexes ==
    {"last_context", "model_limits", "token_buckets", "request_buckets",
     "token.last_refill", "token.tokens", "request.last_refill", "request.tokens",
     "state", "failure_count", "success_count",
     "current_rate", "remaining_requests", "remaining_tokens", "reset_time"}

step_lock(m) == <<[do |-> "lock", m |-> m]>>
step_unlock(m) == <<[do |-> "unlock", m |-> m]>>
step_sleep == <<[do |-> "sleep", m |-> "none"]>>

\* `*self.m.lock().await = ..`: the guard lives for one statement.
locked(m) == step_lock(m) \o step_unlock(m)
\* `let guard = self.m.lock().await; body`: the guard lives while body runs.
holding(m, body) == step_lock(m) \o body \o step_unlock(m)

last_refill_of(bucket) ==
    IF bucket = "token" THEN "token.last_refill" ELSE "request.last_refill"
tokens_of(bucket) == IF bucket = "token" THEN "token.tokens" ELSE "request.tokens"

\* TokenBucket::refill: last_refill, then tokens, both held to the end.
refill_locks(bucket) == holding(last_refill_of(bucket), locked(tokens_of(bucket)))

\* TokenBucket::available_tokens
available_tokens_locks(bucket) == refill_locks(bucket) \o locked(tokens_of(bucket))

\* TokenBucket::acquire with one wait: drop(tokens) precedes the sleep.
TokenBucket_acquire_locks(bucket) ==
    refill_locks(bucket) \o locked(tokens_of(bucket)) \o step_sleep
        \o refill_locks(bucket) \o locked(tokens_of(bucket))

\* TokenBucket::refund and force_debit
refund_locks(bucket) == locked(tokens_of(bucket))

\* get_token_bucket(_for_key) / get_request_bucket(_for_key), creating the
\* bucket: the map's guard is held while model_limits is read.
get_bucket_locks(map) == holding(map, locked("model_limits"))

\* CircuitBreaker::is_allowed, half-opening.
is_allowed_locks == holding("state", locked("success_count"))

\* CircuitBreaker::record_success in HalfOpen, closing.
record_success_locks == holding("state", holding("success_count", locked("failure_count")))

\* CircuitBreaker::record_failure, from Closed and from HalfOpen.
record_failure_locks(from) ==
    IF from = "Closed" THEN holding("state", locked("failure_count"))
    ELSE holding("state", locked("success_count"))

\* AdaptiveRateLimiter
get_rate_locks == locked("current_rate")
should_throttle_locks == locked("remaining_requests") \o locked("remaining_tokens")
update_from_headers_locks ==
    locked("remaining_requests") \o locked("remaining_tokens") \o locked("reset_time")
        \o locked("current_rate")

\* An apply_dynamic_limits that keeps the guard of model_limits while it
\* resizes.
apply_dynamic_limits_holding_limits ==
    holding("model_limits",
        holding("token_buckets", available_tokens_locks("token") \o refund_locks("token"))
        \o holding("request_buckets",
                   available_tokens_locks("request") \o refund_locks("request")))

\* apply_dynamic_limits with both limits: model_limits read, then written;
\* each map's guard held over old.available_tokens() and the debit of the
\* new bucket.
apply_dynamic_limits_locks ==
    locked("model_limits") \o locked("model_limits")
        \o holding("token_buckets",
                   available_tokens_locks("token") \o refund_locks("token"))
        \o holding("request_buckets",
                   available_tokens_locks("request") \o refund_locks("request"))

\* update_from_response: the guard of last_context is the temporary of the
\* `if let` scrutinee and lives through apply_dynamic_limits.
update_from_response_locks ==
    update_from_headers_locks \o holding("last_context", apply_dynamic_limits_locks)

\* acquire and acquire_for_deployment
acquire_locks ==
    locked("last_context") \o is_allowed_locks \o get_rate_locks \o step_sleep
        \o get_bucket_locks("token_buckets") \o get_bucket_locks("request_buckets")
        \o available_tokens_locks("token") \o available_tokens_locks("request")
        \o locked("model_limits")
        \o TokenBucket_acquire_locks("token") \o TokenBucket_acquire_locks("request")

reconcile_after_completed_locks == get_bucket_locks("token_buckets") \o refund_locks("token")

get_status_locks ==
    get_bucket_locks("token_buckets") \o get_bucket_locks("request_buckets")
        \o available_tokens_locks("token") \o available_tokens_locks("request")
        \o is_allowed_locks \o should_throttle_locks \o get_rate_locks

\* The public calls of the coordinator.
Calls ==
    [acquire |-> acquire_locks,
     acquire_for_deployment |-> acquire_locks,
     update_from_response |-> update_from_response_locks,
     reconcile_after_completed |-> reconcile_after_completed_locks,
     record_success |-> record_success_locks,
     record_failure |-> record_failure_locks("Closed"),
     record_failure_half_open |-> record_failure_locks("HalfOpen"),
     get_status |-> get_status_locks]

IdleCall == [call |-> "none", pc |-> 0]

\* The step a task is at: its call's next lock, unlock or sleep.
at(t) ==
    LET c == mu.task[t] IN
    IF c.call # "none" /\ c.pc <= Len(Calls[c.call])
    THEN Calls[c.call][c.pc] ELSE [do |-> "none", m |-> "none"]

MuCall(t, c) ==
    /\ mu.task[t] = IdleCall
    /\ mu' = [mu EXCEPT !.task[t] = [call |-> c, pc |-> 1]]
    /\ UNCHANGED <<now, app, limiter, pq, brVars, tbVars, rtVars, coVars>>

\* lock().await completes when the mutex is free; tokio's Mutex is not
\* reentrant.
MuLock(t) ==
    /\ at(t).do = "lock"
    /\ mu.owner[at(t).m] = 0
    /\ mu' = [mu EXCEPT !.owner[at(t).m] = t, !.task[t].pc = @ + 1]
    /\ UNCHANGED <<now, app, limiter, pq, brVars, tbVars, rtVars, coVars>>

MuUnlock(t) ==
    /\ at(t).do = "unlock"
    /\ mu' = [mu EXCEPT !.owner[at(t).m] = 0, !.task[t].pc = @ + 1]
    /\ UNCHANGED <<now, app, limiter, pq, brVars, tbVars, rtVars, coVars>>

\* A timed sleep, over.
MuSleep(t) ==
    /\ at(t).do = "sleep"
    /\ mu' = [mu EXCEPT !.task[t].pc = @ + 1]
    /\ UNCHANGED <<now, app, limiter, pq, brVars, tbVars, rtVars, coVars>>

MuReturn(t) ==
    /\ mu.task[t].call # "none"
    /\ at(t).do = "none"
    /\ mu' = [mu EXCEPT !.task[t] = IdleCall]
    /\ UNCHANGED <<now, app, limiter, pq, brVars, tbVars, rtVars, coVars>>

InitLocks ==
    /\ now = 0
    /\ app = [f |-> "none"]
    /\ limiter = [min_rate |-> 0]
    /\ mu = [owner |-> [m \in Mutexes |-> 0], task |-> [t \in LockTasks |-> IdleCall]]
    /\ pq = [idle |-> TRUE]
    /\ BreakerIdle
    /\ BucketIdle
    /\ RetryIdle
    /\ CoordIdle

NextLocks ==
    \/ \E t \in LockTasks, c \in DOMAIN Calls : MuCall(t, c)
    \/ \E t \in LockTasks : MuLock(t)
    \/ \E t \in LockTasks : MuUnlock(t)
    \/ \E t \in LockTasks : MuSleep(t)
    \/ \E t \in LockTasks : MuReturn(t)

SpecLocks == InitLocks /\ [][NextLocks]_vars

----------------------------------------------------------------------------
(* core/src/azure.rs: get_response, get_response_input_items and           *)
(* delete_response, one call at a time.  A step is one turn of the loop:   *)
(* the request built and sent, its outcome matched.                        *)

MaxRequestRetries == 2    \* provider.request_max_retries() ranges over 0..MaxRequestRetries

AzureOps == {"get_response", "get_response_input_items", "delete_response"}

\* An error body as parse_azure_error reads it: text that is no ErrorBody
\* (json FALSE), or one whose error.code and error.message are there or not.
ErrorBodies ==
    [text : {"raw"}, json : {FALSE}, code : {NoId}, message : {NoId}]
    \cup [text : {"raw"}, json : {TRUE}, code : {NoId, SomeId("RateLimited")},
          message : {NoId, SomeId("slow down")}]

\* What builder.send() can give: no token (the request is never sent), a
\* send error, or a response with its status, body and request id header;
\* decodes tells whether a success body parses as the expected type.
SendOutcomes ==
    [kind : {"no_token", "send_error"}, status : {0}, body : {CHOOSE b \in ErrorBodies : TRUE},
     request_id : {NoId}, decodes : {TRUE}]
    \cup [kind : {"response"}, status : {200, 204}, body : {CHOOSE b \in ErrorBodies : TRUE},
          request_id : {NoId}, decodes : BOOLEAN]
    \cup [kind : {"response"}, status : {400, 404, 429, 500, 503}, body : ErrorBodies,
          request_id : {NoId, SomeId("req-1")}, decodes : {TRUE}]

\* StatusCode::is_success
is_success(status) == status >= 200 /\ status <= 299

\* parse_azure_error
parse_azure_error(body, status, request_id) ==
    [status |-> status,
     code |-> IF body.json /\ body.code.some THEN body.code.s ELSE "unknown",
     message |-> IF body.json /\ body.message.some THEN body.message.s ELSE body.text,
     request_id |-> request_id]

NoResult == [kind |-> "none"]
IdleAzure == [f |-> "none"]

\* The call as it starts: attempt = 0, nothing sent.  sent, slept and last
\* are history: the requests sent, the sleeps made, the last outcome.
azure_call(op, max_retries) ==
    [f |-> op, pc |-> "loop", max_retries |-> max_retries, attempt |-> 0,
     sent |-> 0, slept |-> 0, last |-> [kind |-> "none"], result |-> NoResult]

returns(c, result) == [c EXCEPT !.pc = "returned", !.result = result]

\* A turn of the loop that retries a retryable outcome once more than
\* max_retries allows.
azure_attempt_once_more(c, o) ==
    LET attempt == c.attempt + 1
        c1 == [c EXCEPT !.attempt = attempt, !.last = o]
        c2 == [c1 EXCEPT !.sent = @ + 1]
    IN  CASE o.kind = "no_token" -> returns(c1, [kind |-> "Err", err |-> "token"])
          [] o.kind = "send_error" ->
                IF attempt > c.max_retries + 1
                THEN returns(c2, [kind |-> "Err", err |-> "Reqwest"])
                ELSE [c2 EXCEPT !.pc = "sleep", !.slept = @ + 1]
          [] OTHER ->
                IF is_success(o.status)
                THEN returns(c2, [kind |-> "Ok"])
                ELSE IF (o.status = 429 \/ is_server_error(o.status))
                        /\ attempt <= c.max_retries + 1
                     THEN [c2 EXCEPT !.pc = "sleep", !.slept = @ + 1]
                     ELSE returns(c2, [kind |-> "Err", err |-> "Azure",
                                       azure |-> parse_azure_error(o.body, o.status,
                                                                   o.request_id)])

\* One turn of the loop for outcome o of the send: attempt += 1, the token,
\* the request, and the match on the outcome.
azure_attempt(c, o) ==
    LET attempt == c.attempt + 1
        c1 == [c EXCEPT !.attempt = attempt, !.last = o]
        c2 == [c1 EXCEPT !.sent = @ + 1]
        should_retry_status == o.status = 429 \/ is_server_error(o.status)
    IN  CASE o.kind = "no_token" -> returns(c1, [kind |-> "Err", err |-> "token"])
          [] o.kind = "send_error" ->
                IF attempt > c.max_retries
                THEN returns(c2, [kind |-> "Err", err |-> "Reqwest"])
                ELSE [c2 EXCEPT !.pc = "sleep", !.slept = @ + 1]
          [] OTHER ->
                IF is_success(o.status) \/ (c.f = "delete_response" /\ o.status = 204)
                THEN IF c.f = "delete_response" \/ o.decodes
                     THEN returns(c2, [kind |-> "Ok"])
                     ELSE returns(c2, [kind |-> "Err", err |-> "Reqwest"])
                ELSE IF should_retry_status /\ attempt <= c.max_retries
                     THEN [c2 EXCEPT !.pc = "sleep", !.slept = @ + 1]
                     ELSE returns(c2, [kind |-> "Err", err |-> "Azure",
                                       azure |-> parse_azure_error(o.body, o.status,
                                                                   o.request_id)])

AzureCall(op, max_retries) ==
    /\ app.f \in AzureOps => app.pc = "returned"
    /\ app' = azure_call(op, max_retries)
    /\ UNCHANGED <<now, limiter, mu, pq, brVars, tbVars, rtVars, coVars>>

AzureSend(o) ==
    /\ app.f \in AzureOps /\ app.pc = "loop"
    /\ app' = azure_attempt(app, o)
    /\ UNCHANGED <<now, limiter, mu, pq, brVars, tbVars, rtVars, coVars>>

\* tokio::time::sleep(delay) is over: the loop goes round.
AzureSleepOver ==
    /\ app.f \in AzureOps /\ app.pc = "sleep"
    /\ app' = [app EXCEPT !.pc = "loop"]
    /\ UNCHANGED <<now, limiter, mu, pq, brVars, tbVars, rtVars, coVars>>

InitAzure ==
    /\ now = 0
    /\ app = IdleAzure
    /\ limiter = [min_rate |-> 0]
    /\ mu = [idle |-> TRUE] /\ pq = [idle |-> TRUE]
    /\ BreakerIdle
    /\ BucketIdle
    /\ RetryIdle
    /\ CoordIdle

NextAzure ==
    \/ \E op \in AzureOps, m \in 0..MaxRequestRetries : AzureCall(op, m)
    \/ \E o \in SendOutcomes : AzureSend(o)
    \/ AzureSleepOver

SpecAzure == InitAzure /\ [][NextAzure]_vars

----------------------------------------------------------------------------
(* PriorityRequestQueue shared by several tasks.  enqueue is one critical  *)
(* section; dequeue is two, one per queue: the guard of high_priority is   *)
(* released before normal_priority is locked.  A request is a number, given *)
(* in the order of the enqueues.                                           *)

NumQueueTasks == 2
MaxRequests == 3      \* enqueue calls in a behaviour
QueueTasks == 1..NumQueueTasks

PriorityRequestQueue_new == [high_priority |-> <<>>, normal_priority |-> <<>>]

\* An enqueue that puts the request at the front.
enqueue_in_front(q, request, high_priority) ==
    IF high_priority
    THEN [q EXCEPT !.high_priority = <<request>> \o @]
    ELSE [q EXCEPT !.normal_priority = <<request>> \o @]

\* enqueue: push_back on the queue of the priority.
enqueue(q, request, high_priority) ==
    IF high_priority
    THEN [q EXCEPT !.high_priority = Append(@, request)]
    ELSE [q EXCEPT !.normal_priority = Append(@, request)]

NoRequest == 0        \* None of an Option<T>

\* VecDeque::pop_front: what is popped and what is left.
pop_front(queue) ==
    IF queue = <<>> THEN [ret |-> NoRequest, rest |-> queue]
    ELSE [ret |-> Head(queue), rest |-> Tail(queue)]

\* A task that is in no call.  ret is what its last dequeue returned, -1
\* before the first; queued and alone are history: the requests in the
\* queue when that dequeue was called, and whether no other call changed the
\* queue while it ran.
IdleQueueTask == [pc |-> "idle", ret |-> 0 - 1, queued |-> {}, alone |-> TRUE]

Range(f) == {f[i] : i \in DOMAIN f}

\* Another task has changed the queue: the dequeues in progress overlap it.
overlapping(tasks, t) ==
    [u \in QueueTasks |->
        IF u # t /\ tasks[u].pc # "idle" THEN [tasks[u] EXCEPT !.alone = FALSE]
        ELSE tasks[u]]

Enqueue(t, high_priority) ==
    /\ pq.task[t].pc = "idle"
    /\ pq.next <= MaxRequests
    /\ pq' = [pq EXCEPT !.q = enqueue(@, pq.next, high_priority),
                        !.high = IF high_priority THEN @ \cup {pq.next} ELSE @,
                        !.next = @ + 1,
                        !.task = overlapping(@, t)]
    /\ UNCHANGED <<now, app, limiter, mu, brVars, tbVars, rtVars, coVars>>

DequeueCall(t) ==
    /\ pq.task[t].pc = "idle"
    /\ pq' = [pq EXCEPT !.task[t] =
                [pc |-> "high", ret |-> 0 - 1, alone |-> TRUE,
                 queued |-> Range(pq.q.high_priority) \cup Range(pq.q.normal_priority)]]
    /\ UNCHANGED <<now, app, limiter, mu, brVars, tbVars, rtVars, coVars>>

\* "Try high priority first": the pop under the guard of high_priority, and
\* the return of what it gave.
DequeueHigh(t) ==
    /\ pq.task[t].pc = "high"
    /\ LET r == pop_front(pq.q.high_priority) IN
       pq' = IF r.ret # NoRequest
             THEN [pq EXCEPT !.q.high_priority = r.rest,
                             !.out = Append(@, r.ret),
                             !.task = [overlapping(@, t) EXCEPT
                                          ![t].pc = "idle", ![t].ret = r.ret]]
             ELSE [pq EXCEPT !.task[t].pc = "normal"]
    /\ UNCHANGED <<now, app, limiter, mu, brVars, tbVars, rtVars, coVars>>

\* "Then normal priority": the pop under the guard of normal_priority is
\* what dequeue returns.
DequeueNormal(t) ==
    /\ pq.task[t].pc = "normal"
    /\ LET r == pop_front(pq.q.normal_priority) IN
       pq' = IF r.ret # NoRequest
             THEN [pq EXCEPT !.q.normal_priority = r.rest,
                             !.out = Append(@, r.ret),
                             !.task = [overlapping(@, t) EXCEPT
                                          ![t].pc = "idle", ![t].ret = r.ret]]
             ELSE [pq EXCEPT !.task[t].pc = "idle", !.task[t].ret = NoRequest]
    /\ UNCHANGED <<now, app, limiter, mu, brVars, tbVars, rtVars, coVars>>

\* next, high and out are history: the number of the next request, the
\* requests enqueued with high priority, the requests returned so far.
InitQueue ==
    /\ now = 0
    /\ app = [f |-> "none"]
    /\ limiter = [min_rate |-> 0]
    /\ mu = [idle |-> TRUE]
    /\ pq = [q |-> PriorityRequestQueue_new, next |-> 1, high |-> {}, out |-> <<>>,
             task |-> [t \in QueueTasks |-> IdleQueueTask]]
    /\ BreakerIdle
    /\ BucketIdle
    /\ RetryIdle
    /\ CoordIdle

NextQueue ==
    \/ \E t \in QueueTasks, hp \in BOOLEAN : Enqueue(t, hp)
    \/ \E t \in QueueTasks : DequeueCall(t)
    \/ \E t \in QueueTasks : DequeueHigh(t)
    \/ \E t \in QueueTasks : DequeueNormal(t)

SpecQueue == InitQueue /\ [][NextQueue]_vars

----------------------------------------------------------------------------
(* core/src/mcp_tool_call.rs: handle_mcp_tool_call, one call at a time.    *)
(* The session's events are the sequence app.events; the tool's completion *)
(* and the turn's cancellation are the environment's steps, and select!    *)
(* takes a branch that is ready.                                           *)

\* The arguments string: blank, JSON, or text that serde_json rejects.
ToolArguments == {"", "  ", "{\"a\":1}", "{"}

\* What sess.call_tool can give: Ok(CallToolResult) with its is_error, or Err.
ToolResults ==
    [ok : {TRUE}, is_error : {"None", "Some(true)", "Some(false)"}, err : {""}]
    \cup [ok : {FALSE}, is_error : {"None"}, err : {"tool call error: timed out"}]

NotReady == [ok |-> FALSE, is_error |-> "None", err |-> "pending"]
Cancelled == [ok |-> FALSE, is_error |-> "None", err |-> "tool call cancelled"]

\* `arguments.trim().is_empty()` gives None; else serde_json::from_str.
parse_arguments(arguments) ==
    CASE arguments \in {"", "  "} -> [ok |-> TRUE, value |-> "None"]
      [] arguments = "{" -> [ok |-> FALSE, value |-> "None"]
      [] OTHER -> [ok |-> TRUE, value |-> arguments]

\* The call as it starts; tool, cancel and branch are the state of the
\* select!: what call_tool has completed with, whether the turn's token has
\* been notified, the branch taken.
mcp_call(call_id, arguments) ==
    [f |-> "handle_mcp_tool_call", pc |-> "parse", call_id |-> call_id,
     arguments |-> arguments, events |-> <<>>, tool |-> NotReady,
     cancel |-> FALSE, branch |-> "none", raced |-> FALSE,
     result |-> NotReady, output |-> [kind |-> "none"]]

\* Lines 29-45: the arguments parsed, or the early return.
mcp_parse(c) ==
    IF parse_arguments(c.arguments).ok
    THEN [c EXCEPT !.pc = "begin"]
    ELSE [c EXCEPT !.pc = "returned",
                   !.output = [kind |-> "FunctionCallOutput", call_id |-> c.call_id,
                               success |-> FALSE]]

\* Lines 47-57: McpToolCallBegin is sent.
tool_call_begin(c) ==
    [c EXCEPT !.pc = "select",
              !.events = Append(@, [msg |-> "McpToolCallBegin", call_id |-> c.call_id,
                                    arguments |-> parse_arguments(c.arguments).value])]

\* Lines 63-70: the branches of the select! that are ready, and the result
\* of each.
select(c) ==
    (IF c.tool # NotReady THEN {[branch |-> "call_tool", result |-> c.tool]} ELSE {})
    \cup (IF c.cancel THEN {[branch |-> "cancel", result |-> Cancelled]} ELSE {})

\* An end of the call that sends no event for a cancelled call.
tool_call_end_unless_cancelled(c) ==
    [c EXCEPT !.pc = "returned",
              !.events = IF c.result = Cancelled THEN @
                         ELSE Append(@, [msg |-> "McpToolCallEnd", call_id |-> c.call_id,
                                         result |-> c.result]),
              !.output = [kind |-> "McpToolCallOutput", call_id |-> c.call_id,
                          result |-> c.result]]

\* Lines 72-93: McpToolCallEnd is sent with the result, which is returned.
tool_call_end(c) ==
    [c EXCEPT !.pc = "returned",
              !.events = Append(@, [msg |-> "McpToolCallEnd", call_id |-> c.call_id,
                                    result |-> c.result]),
              !.output = [kind |-> "McpToolCallOutput", call_id |-> c.call_id,
                          result |-> c.result]]

McpCall(call_id, arguments) ==
    /\ app.f = "handle_mcp_tool_call" => app.pc = "returned"
    /\ app' = mcp_call(call_id, arguments)
    /\ UNCHANGED <<now, limiter, mu, pq, brVars, tbVars, rtVars, coVars>>

McpParse ==
    /\ app.f = "handle_mcp_tool_call" /\ app.pc = "parse"
    /\ app' = mcp_parse(app)
    /\ UNCHANGED <<now, limiter, mu, pq, brVars, tbVars, rtVars, coVars>>

McpBegin ==
    /\ app.f = "handle_mcp_tool_call" /\ app.pc = "begin"
    /\ app' = tool_call_begin(app)
    /\ UNCHANGED <<now, limiter, mu, pq, brVars, tbVars, rtVars, coVars>>

\* sess.call_tool completes.
McpToolCompletes(res) ==
    /\ app.f = "handle_mcp_tool_call" /\ app.pc = "select"
    /\ app.tool = NotReady
    /\ app' = [app EXCEPT !.tool = res]
    /\ UNCHANGED <<now, limiter, mu, pq, brVars, tbVars, rtVars, coVars>>

\* The turn is cancelled while the tool call is awaited.
McpTurnCancelled ==
    /\ app.f = "handle_mcp_tool_call" /\ app.pc = "select"
    /\ ~app.cancel
    /\ app' = [app EXCEPT !.cancel = TRUE]
    /\ UNCHANGED <<now, limiter, mu, pq, brVars, tbVars, rtVars, coVars>>

McpSelect ==
    /\ app.f = "handle_mcp_tool_call" /\ app.pc = "select"
    /\ \E o \in select(app) :
          app' = [app EXCEPT !.pc = "end", !.branch = o.branch, !.result = o.result,
                             !.raced = Cardinality(select(app)) > 1]
    /\ UNCHANGED <<now, limiter, mu, pq, brVars, tbVars, rtVars, coVars>>

McpEnd ==
    /\ app.f = "handle_mcp_tool_call" /\ app.pc = "end"
    /\ app' = tool_call_end(app)
    /\ UNCHANGED <<now, limiter, mu, pq, brVars, tbVars, rtVars, coVars>>

InitMcp ==
    /\ now = 0
    /\ app = [f |-> "none"]
    /\ limiter = [min_rate |-> 0]
    /\ mu = [idle |-> TRUE] /\ pq = [idle |-> TRUE]
    /\ BreakerIdle
    /\ BucketIdle
    /\ RetryIdle
    /\ CoordIdle

NextMcp ==
    \/ \E id \in {"call-1", "call-2"}, a \in ToolArguments : McpCall(id, a)
    \/ McpParse
    \/ McpBegin
    \/ \E r \in ToolResults : McpToolCompletes(r)
    \/ McpTurnCancelled
    \/ McpSelect
    \/ McpEnd

SpecMcp == InitMcp /\ [][NextMcp]_vars

\* The component specifications pin the other components.
InitFn(args) ==
    /\ now = 0
    /\ app \in args
    /\ limiter = [min_rate |-> 0]
    /\ mu = [idle |-> TRUE] /\ pq = [idle |-> TRUE]
    /\ BreakerIdle
    /\ BucketIdle
    /\ RetryIdle
    /\ CoordIdle

InitLimiter ==
    /\ now = 0
    /\ app = [f |-> "none"]
    /\ limiter \in Limiters
    /\ mu = [idle |-> TRUE] /\ pq = [idle |-> TRUE]
    /\ BreakerIdle
    /\ BucketIdle
    /\ RetryIdle
    /\ CoordIdle

NextLimiter ==
    \/ Tick
    \/ \E rr \in RemainingRequests, tk \in RemainingTokens, rs \in ResetSeconds :
          UpdateFromHeaders(rr, tk, rs)
    \/ GetRate

SpecLimiter == InitLimiter /\ [][NextLimiter]_vars

SpecAttachItemIds == InitFn(AttachItemIdsArgs) /\ [][AttachItemIdsCall]_vars

SpecUrl ==
    InitFn(UrlForPathArgs \cup BuildAzureUrlArgs)
      /\ [][UrlForPathCall \/ BuildAzureUrlCall]_vars

SpecIsAzure == InitFn(IsAzureBaseUrlArgs) /\ [][IsAzureBaseUrlCall]_vars

SpecShouldRetry == InitFn(ShouldRetryArgs) /\ [][ShouldRetryCall]_vars

SpecBackoff == InitFn(BackoffArgs) /\ [][BackoffCall]_vars

SpecComputeRetryDelay == InitFn(ComputeRetryDelayArgs) /\ [][ComputeRetryDelayCall]_vars

SpecApiError == InitFn(ApiErrorFromArgs) /\ [][ApiErrorFromCall]_vars

SpecParseRetryAfter == InitFn(ParseRetryAfterArgs) /\ [][ParseRetryAfterCall]_vars

----------------------------------------------------------------------------
(* Properties                                                              *)

\* C1.  The stored level of the TokenBucket is never below 0 and never above
\* its capacity, whatever acquire, refund, force_debit and available_tokens
\* calls and ticks of the clock came before; a level that available_tokens
\* returned is within the same range.
C1_LevelWithinCapacity ==
    /\ 0 <= tb.tokens /\ tb.tokens <= tb.capacity
    /\ \A t \in BucketTasks :
          tbTask[t].ret = "Level" => 0 <= tbTask[t].val /\ tbTask[t].val <= tb.capacity

\* A refund of more than the capacity has been made and the bucket is full.
C1_RefundClamped ==
    /\ tbLast.op = "refund"
    /\ tbLast.arg > tb.capacity
    /\ tb.tokens = tb.capacity

\* The edges of the breaker, each with the call that takes it.
BreakerEdges ==
    {<<"Closed", "record_failure", "Open">>,
     <<"Open", "is_allowed", "HalfOpen">>,
     <<"HalfOpen", "record_success", "Closed">>,
     <<"HalfOpen", "record_failure", "Open">>}

\* C2.  A call that changes the state of the breaker takes one of the four
\* edges Closed->Open (record_failure), Open->HalfOpen (is_allowed),
\* HalfOpen->Closed (record_success), HalfOpen->Open (record_failure).
C2_OnlyGraphEdges ==
    cbLast.from # cb.state => <<cbLast.from, cbLast.op, cb.state>> \in BreakerEdges

\* record_failure has just reopened a HalfOpen breaker.
C2_HalfOpenReopened ==
    /\ cbLast.from = "HalfOpen"
    /\ cbLast.op = "record_failure"
    /\ cb.state = "Open"

\* C3.  When run_with_retry has returned after max_attempts + 1 calls of op
\* that all failed with an error the policy marks retryable, what it returned
\* is Err(TransportError::RetryLimit).
C3_RetryLimitAfterExhaustion ==
    (rt.pc = "done" /\ rt.allRetryable /\ rt.calls = rt.policy.max_attempts + 1)
        => rt.result = [ok |-> FALSE, err |-> RetryLimit]

\* C4.  An acquire that returns the capacity error has not been suspended:
\* no pacer sleep and no bucket wait came before the error.
C4_CapacityErrorBeforeAnySleep ==
    \A t \in CoordTasks :
        (co[t].pc = "returned" /\ co[t].result = "ErrCapacity")
            => co[t].paced = 0 /\ co[t].waits = 0

\* C5.  An acquire that was cancelled in one of its sleeps has left no debit
\* in its token bucket and none in its request bucket.
C5_CancelledLeavesNoDebit ==
    \A t \in CoordTasks :
        (co[t].pc = "returned" /\ co[t].result = "Cancelled")
            => co[t].tokDebit = 0 /\ co[t].reqDebit = 0

\* C6.  The two resizes that update_from_response makes for the response of a
\* request to deployment A replace A's bucket by one of the capacity the
\* header gives, and leave the buckets of every other key as they were.
C6_ResponseResizesOwnBuckets ==
    [][/\ (resp.pc = "resizeTok" /\ resp'.pc = "resizeReq") =>
            /\ \A k \in Keys \ {resp.respFor} : token_buckets'[k] = token_buckets[k]
            /\ (resp.lt # NoValue /\ token_buckets[resp.respFor] # 0) =>
                   buckets'[token_buckets'[resp.respFor]].capacity = resp.lt
       /\ (resp.pc = "resizeReq" /\ resp'.pc = "idle") =>
            /\ \A k \in Keys \ {resp.respFor} : request_buckets'[k] = request_buckets[k]
            /\ (resp.lr # NoValue /\ request_buckets[resp.respFor] # 0) =>
                   buckets'[request_buckets'[resp.respFor]].capacity = resp.lr
      ]_vars

\* C7.  An acquire that returned Err (circuit open, capacity pre-check, token
\* wait exhausted, request-permit wait exhausted) has left no debit in its
\* token bucket and none in its request bucket.
C7_ErrLeavesNoDebit ==
    \A t \in CoordTasks :
        (co[t].pc = "returned"
         /\ co[t].result \in {"ErrCircuit", "ErrCapacity", "ErrToken", "ErrRequest"})
            => co[t].tokDebit = 0 /\ co[t].reqDebit = 0

\* C8.  A call has taken a request permit only if its token acquisition has
\* succeeded with a debit of estimated_tokens: a call still waiting for its
\* tokens, or one whose token acquisition failed, has taken none.
C8_RequestAfterTokens ==
    \A t \in CoordTasks :
        /\ co[t].reqDebit > 0 => (co[t].gotTok /\ co[t].tokDebit = co[t].est)
        /\ ~co[t].gotTok => co[t].reqDebit = 0
        /\ co[t].result = "ErrToken" => co[t].reqDebit = 0

\* An acquire has returned Ok after a wait, with both debits made.
C8_BothPermitsTaken ==
    \E t \in CoordTasks :
        /\ co[t].pc = "returned" /\ co[t].result = "Ok"
        /\ co[t].waits > 0
        /\ co[t].tokDebit = co[t].est /\ co[t].reqDebit > 0

\* C9.  An acquire whose is_allowed call found the breaker Open with the
\* cool-down still running has returned the circuit-open error at once: it
\* began no pacer sleep and no bucket wait, created no bucket, debited none.
C9_CircuitOpenImmediate ==
    \A t \in CoordTasks :
        co[t].sawOpen =>
            /\ co[t].pc = "returned" /\ co[t].result = "ErrCircuit"
            /\ co[t].paced = 0 /\ co[t].waits = 0 /\ co[t].made = 0
            /\ co[t].tokDebit = 0 /\ co[t].reqDebit = 0

\* An acquire has been refused by the Open breaker during the cool-down.
C9_RefusedWhileOpen ==
    \E t \in CoordTasks :
        /\ co[t].sawOpen /\ co[t].pc = "returned"
        /\ cb.state = "Open" /\ now < cb.until

\* C10.  A record_failure on a Closed breaker opens it exactly when it brings
\* the failures recorded since the last record_success to failure_threshold,
\* and then until = now + timeout; a record_success on a Closed breaker
\* leaves it Closed with failure_count 0; a Closed breaker has seen fewer
\* than failure_threshold failures since the last record_success.
C10_OpensAtThreshold ==
    /\ (cbLast.op = "record_failure" /\ cbLast.from = "Closed") =>
          /\ (cb.state = "Open") <=> (cbConsec = cb.failure_threshold)
          /\ cb.state = "Open" => cb.until = cbLast.at + cb.timeout
          /\ cb.state # "Open" => cb.state = "Closed"
    /\ (cbLast.op = "record_success" /\ cbLast.from = "Closed") =>
          cb.state = "Closed" /\ cb.failure_count = 0
    /\ cb.state = "Closed" =>
          cbConsec = cb.failure_count /\ cbConsec < cb.failure_threshold

\* The second failure in a row has opened a breaker of threshold 2, after the
\* clock had advanced.
C10_OpenedBySecondFailure ==
    /\ cbLast.op = "record_failure" /\ cbLast.from = "Closed"
    /\ cb.state = "Open"
    /\ cb.failure_threshold > 1 /\ cbConsec = cb.failure_threshold
    /\ cb.timeout > 0 /\ cbLast.at > 0

\* C11.  An is_allowed call on an Open breaker before `until` answers false
\* and leaves the breaker as it was; at or after `until` it answers true,
\* makes the breaker HalfOpen with success_count 0 and changes nothing else
\* that is read later; on a Closed or HalfOpen breaker it answers true and
\* leaves the breaker as it was.
C11_IsAllowedByState ==
    cbLast.op = "is_allowed" =>
        LET b == cbLast.before IN
        /\ (b.state = "Open" /\ cbLast.at < b.until) => (~cbLast.ret /\ cb = b)
        /\ (b.state = "Open" /\ cbLast.at >= b.until) =>
              /\ cbLast.ret
              /\ cb.state = "HalfOpen" /\ cb.success_count = 0
              /\ cb.failure_count = b.failure_count
        /\ b.state \in {"Closed", "HalfOpen"} => (cbLast.ret /\ cb = b)

\* is_allowed has half-opened, after its cool-down, a breaker that still
\* carried the successes of an earlier recovery.
C11_HalfOpenedAfterCoolDown ==
    /\ cbLast.op = "is_allowed"
    /\ cbLast.before.state = "Open" /\ cbLast.before.success_count > 0
    /\ cbLast.before.timeout > 0 /\ cbLast.at >= cbLast.before.until
    /\ cb.state = "HalfOpen"

\* C12.  A record_success on a HalfOpen breaker closes it exactly when it
\* brings the successes recorded since the breaker became HalfOpen to
\* success_threshold; the breaker it closes has failure_count 0; otherwise
\* the breaker stays HalfOpen.
C12_ClosesAtSuccessThreshold ==
    (cbLast.op = "record_success" /\ cbLast.from = "HalfOpen") =>
        /\ (cb.state = "Closed") <=> (cbSucc = cb.success_threshold)
        /\ cb.state = "Closed" => cb.failure_count = 0
        /\ cb.state # "Closed" => cb.state = "HalfOpen"

\* The second success in HalfOpen has closed a breaker of success_threshold 2
\* whose failure_count was not 0.
C12_ClosedBySecondSuccess ==
    /\ cbLast.op = "record_success" /\ cbLast.from = "HalfOpen"
    /\ cb.state = "Closed"
    /\ cb.success_threshold > 1 /\ cbSucc = cb.success_threshold
    /\ cbLast.before.failure_count > 0

\* C13.  A record_failure on a HalfOpen breaker leaves it Open with
\* until = now + timeout and success_count 0, whatever the successes counted
\* before.
C13_HalfOpenFailureReopens ==
    (cbLast.op = "record_failure" /\ cbLast.from = "HalfOpen") =>
        /\ cb.state = "Open"
        /\ cb.until = cbLast.at + cb.timeout
        /\ cb.success_count = 0

\* A failure has reopened, after the clock had advanced, a HalfOpen breaker
\* that had already counted a success.
C13_ReopenedAfterSuccess ==
    /\ cbLast.op = "record_failure" /\ cbLast.from = "HalfOpen"
    /\ cbLast.before.success_count > 0
    /\ cbLast.at > 0 /\ cb.timeout > 0
    /\ cb.state = "Open"

\* C14.  When update_from_response carries a limit header L and the map holds
\* a bucket for the key of the last recorded context, the resize replaces that
\* bucket by one of capacity L, refill rate L per minute and level
\* min(what the old bucket had available, L): never more than was available.
\* This holds for the token bucket (limit-tokens) and for the request bucket
\* (limit-requests).
C14_ResizeKeepsMinLevel ==
    [][/\ (resp.pc = "resizeTok" /\ resp'.pc = "resizeReq"
           /\ resp.lt # NoValue /\ token_buckets[resp.ctx.bucket_key] # 0) =>
            LET old == refill(buckets[token_buckets[resp.ctx.bucket_key]], now)
                new == buckets'[token_buckets'[resp.ctx.bucket_key]]
            IN /\ new.capacity = resp.lt /\ new.refill_rate = resp.lt
               /\ new.tokens = Min(old.tokens, resp.lt)
               /\ new.tokens <= old.tokens
       /\ (resp.pc = "resizeReq" /\ resp'.pc = "idle"
           /\ resp.lr # NoValue /\ request_buckets[resp.ctx.bucket_key] # 0) =>
            LET old == refill(buckets[request_buckets[resp.ctx.bucket_key]], now)
                new == buckets'[request_buckets'[resp.ctx.bucket_key]]
            IN /\ new.capacity = resp.lr /\ new.refill_rate = resp.lr
               /\ new.tokens = Min(old.tokens, resp.lr)
               /\ new.tokens <= old.tokens
      ]_vars

\* The token bucket of the recorded key has just been replaced by one of a
\* capacity other than the configured one, holding less than that capacity.
C14_TokenBucketResized ==
    /\ resp.pc = "resizeReq" /\ resp.lt # NoValue
    /\ token_buckets[resp.ctx.bucket_key] # 0
    /\ LET b == buckets[token_buckets[resp.ctx.bucket_key]] IN
       /\ b.capacity = resp.lt /\ b.capacity # ConfigTPM
       /\ b.tokens < b.capacity

\* C15.  When reconcile_after_completed(key, hint, estimated, actual) has
\* returned, the level of the key's token bucket is the level it had before
\* the refund or debit plus estimated - actual, clamped to [0, capacity], and
\* the key's request bucket is as it was.
C15_ReconcileMovesLevelByDelta ==
    \A t \in CoordTasks :
        (co[t].pc = "returned" /\ co[t].result = "Reconciled") =>
            LET b == buckets[token_buckets[co[t].dep]] IN
            /\ b.tokens = Max(0, Min(b.capacity, co[t].had + co[t].est - co[t].actual))
            /\ buckets[request_buckets[co[t].dep]] = co[t].reqHad

\* C16.  should_retry answers true exactly when attempt < max_attempts and
\* the error is an HTTP 429 with retry_429 set, an HTTP 5xx with retry_5xx
\* set, or a Timeout or Network error with retry_transport set; every other
\* kind and every other status is answered false.
C16_ShouldRetryExactly ==
    (app.f = "should_retry" /\ app.done) =>
        (app.out <=>
            /\ app.attempt < app.max_attempts
            /\ \/ app.err.kind = "Http" /\ app.err.status = 429 /\ app.retry_on.retry_429
               \/ /\ app.err.kind = "Http" /\ app.retry_on.retry_5xx
                  /\ app.err.status \in 500..599
               \/ app.err.kind \in {"Timeout", "Network"} /\ app.retry_on.retry_transport)

\* should_retry has refused a 503 that the policy retries, on the attempt
\* that reached max_attempts.
C16_RefusedAtMaxAttempts ==
    /\ app.f = "should_retry" /\ app.done /\ ~app.out
    /\ app.err = [kind |-> "Http", status |-> 503] /\ app.retry_on.retry_5xx
    /\ app.attempt = app.max_attempts /\ app.attempt > 0

\* What C17 calls a valid header: present, text, and an integer for the two
\* millisecond headers; an integer or a finite non-negative decimal for
\* retry-after.
ValidMs(h) == h.present /\ to_str(h.bytes).ok /\ parse_u64(h.bytes).ok
ValidSecs(h) ==
    /\ h.present /\ to_str(h.bytes).ok
    /\ \/ parse_u64(h.bytes).ok
       \/ /\ parse_f64(h.bytes).ok /\ parse_f64(h.bytes).class = "num"
          /\ (~parse_f64(h.bytes).neg
              \/ (parse_f64(h.bytes).secs = 0 /\ parse_f64(h.bytes).millis = 0))
SecsValue(h) ==
    IF parse_u64(h.bytes).ok THEN parse_u64(h.bytes).val * 1000
    ELSE parse_f64(h.bytes).secs * 1000 + parse_f64(h.bytes).millis

\* C17.  parse_retry_after_headers returns the value of the first of
\* retry-after-ms, x-ms-retry-after-ms, retry-after that is present and valid,
\* skipping the headers before it that are not, and None exactly when none of
\* the three is valid.
C17_FirstValidHeaderWins ==
    (app.f = "parse_retry_after_headers" /\ app.done) =>
        LET h == app.headers IN
        app.out = IF ValidMs(h.retry_after_ms)
                  THEN Some(parse_u64(h.retry_after_ms.bytes).val)
                  ELSE IF ValidMs(h.x_ms_retry_after_ms)
                  THEN Some(parse_u64(h.x_ms_retry_after_ms.bytes).val)
                  ELSE IF ValidSecs(h.retry_after) THEN Some(SecsValue(h.retry_after))
                  ELSE None

\* base x 2^(k-1) with the power and the product saturating at the u64
\* maximum.
RECURSIVE Pow2(_)
Pow2(e) == IF e = 0 THEN 1 ELSE 2 * Pow2(e - 1)
SaturatedDelay(base, k) == Min(base * Min(Pow2(k - 1), U64_MAX), U64_MAX)

\* C19.  backoff(base, 0) is base; for k >= 1 backoff(base, k) is a Duration
\* within 0.9 and 1.1 times base x 2^(k-1), the power and the product
\* saturating at the u64 maximum, the lower end truncated to a millisecond.
C19_BackoffWithinJitter ==
    (app.f = "backoff" /\ app.done) =>
        /\ app.out.kind = "Duration"
        /\ app.attempt = 0 => app.out.ms = app.base
        /\ app.attempt >= 1 =>
              LET S == SaturatedDelay(app.base, app.attempt) IN
              /\ 10 * app.out.ms <= 11 * S
              /\ 10 * (app.out.ms + 1) > 9 * S

\* The delay of the first valid header of C17, when there is one.
HasValidHeader(h) ==
    ValidMs(h.retry_after_ms) \/ ValidMs(h.x_ms_retry_after_ms) \/ ValidSecs(h.retry_after)
ServerDelay(h) ==
    IF ValidMs(h.retry_after_ms) THEN parse_u64(h.retry_after_ms.bytes).val
    ELSE IF ValidMs(h.x_ms_retry_after_ms) THEN parse_u64(h.x_ms_retry_after_ms.bytes).val
    ELSE SecsValue(h.retry_after)

\* C18.  compute_retry_delay returns the server's delay when the headers hold
\* a valid retry-after header and max_retry_delay is unset or not below that
\* delay; in every other case (no headers, no valid header, a delay above
\* max_retry_delay) it returns a delay that backoff gives for the next
\* attempt, within 0.9 and 1.1 times base_delay x 2^attempt.
C18_ServerDelayWithinMax ==
    (app.f = "compute_retry_delay" /\ app.done) =>
        LET valid == app.headers.some /\ HasValidHeader(app.headers.map)
            server == ServerDelay(app.headers.map)
            S == SaturatedDelay(app.base_delay, app.attempt + 1)
        IN  /\ app.out.kind = "Duration"
            /\ IF valid /\ (app.max_retry_delay.kind = "None"
                            \/ server <= app.max_retry_delay.ms)
               THEN app.out.ms = server
               ELSE /\ 10 * app.out.ms <= 11 * S
                    /\ 10 * (app.out.ms + 1) > 9 * S

\* The rules of C20 on a parsed body, P and M being "" when absent.
ChainBreakRule(body) ==
    LET P == unwrap_or_empty(body.error.param)
        M == to_ascii_lowercase(unwrap_or_empty(body.error.message))
    IN  /\ body.parses /\ body.has_error
        /\ body.error.type = SomeString(INVALID_REQUEST_ERROR)
        /\ \/ P = PREVIOUS_RESPONSE_ID
           \/ contains(M, PREVIOUS) /\ contains(M, NOT_FOUND)
           \/ starts_with(P, INPUT) /\ contains(M, NOT_FOUND)
           \/ /\ P = INPUT
              /\ \/ contains(M, DUPLICATE_ITEM)
                 \/ contains(M, NO_TOOL_OUTPUT_FOUND)
                 \/ contains(M, OUTPUT_IS_MISSING)

\* C20.  The conversion of a TransportError gives PreviousResponseChainBroken
\* with the message as the body wrote it exactly when the error is an HTTP 400
\* with a body that parses, of type invalid_request_error, and one of the
\* rules on param and the lowercased message applies; in every other case it
\* gives Transport with the error as it was (status, url, headers, body).
C20_ChainBreakExactly ==
    (app.f = "ApiError_from" /\ app.done) =>
        IF /\ app.err.kind = "Http" /\ app.err.status = 400 /\ app.err.has_body
           /\ ChainBreakRule(app.err.body)
        THEN /\ app.out.kind = "PreviousResponseChainBroken"
             /\ app.out.message = unwrap_or_empty(app.err.body.error.message)
        ELSE /\ app.out.kind = "Transport"
             /\ app.out.err = app.err

\* A 400 whose param is "input" and whose message has a capital letter where
\* the rule has a small one has become PreviousResponseChainBroken with the
\* message unchanged.
C20_MixedCaseMessageKept ==
    /\ app.f = "ApiError_from" /\ app.done
    /\ app.out.kind = "PreviousResponseChainBroken"
    /\ app.err.body.error.param = SomeString(INPUT)
    /\ app.out.message # to_ascii_lowercase(app.out.message)
    /\ contains(to_ascii_lowercase(app.out.message), DUPLICATE_ITEM)

\* C21.  A force_debit(n) step never raises the level and never leaves it
\* below 0; a refund(n) step never lowers the level and never leaves it above
\* the capacity; with n <= 0 either step leaves the level as it was.  (The
\* steps that leave the clock and every task where they were are the refund
\* and force_debit calls.)
C21_DebitDownRefundUp ==
    [][(now' = now /\ tbTask' = tbTask) =>
          /\ tbLast'.op = "force_debit" =>
                /\ tb'.tokens <= tb.tokens /\ tb'.tokens >= 0
                /\ tbLast'.arg <= 0 => tb'.tokens = tb.tokens
          /\ tbLast'.op = "refund" =>
                /\ tb'.tokens >= tb.tokens /\ tb'.tokens <= tb.capacity
                /\ tbLast'.arg <= 0 => tb'.tokens = tb.tokens
      ]_vars

\* A force_debit of more than the capacity has been made and the bucket is
\* empty.
C21_DebitFloored ==
    /\ tbLast.op = "force_debit"
    /\ tbLast.arg > tb.capacity
    /\ tb.tokens = 0

\* An acquire(n) with 0 < n <= capacity eventually returns Ok.
AcquireReturnsOk ==
    \A t \in BucketTasks :
        (tbTask[t].pc \in {"refill", "check", "sleep"}
         /\ 0 < tbTask[t].need /\ tbTask[t].need <= tb.capacity)
            ~> (tbTask[t].pc = "idle" /\ tbTask[t].ret = "Ok")

\* The step on which acquire returns Ok debits exactly n.
DebitsExactly ==
    \A t \in BucketTasks :
        (tbTask[t].pc = "check" /\ tbTask'[t].pc = "idle" /\ tbTask'[t].ret = "Ok")
            => tb'.tokens = tb.tokens - tbTask[t].need

\* The time since the call is at least (n - avail) / refill_rate.
WaitedForDeficit(t) ==
    (now - tbTask[t].called) * tb.refill_rate >= tbTask[t].need - tbTask[t].avail

\* C22, as stated.  An acquire(n) with 0 < n <= capacity on a bucket that no
\* other task debits eventually returns Ok, having debited exactly n, and when
\* the bucket had less than n available at the call, it has returned only
\* after (n - available) / refill_rate.
C22_ReturnsOnlyAfterDeficitTime ==
    /\ AcquireReturnsOk
    /\ [][DebitsExactly]_vars
    /\ [](\A t \in BucketTasks :
            (tbTask[t].pc = "idle" /\ tbTask[t].ret = "Ok"
             /\ tbTask[t].avail < tbTask[t].need) => WaitedForDeficit(t))

\* C22, amended.  The same, the wait being at least (n - available) /
\* refill_rate when no other task has refunded the bucket during the call.
C22_AcquireAloneSucceeds ==
    /\ AcquireReturnsOk
    /\ [][DebitsExactly]_vars
    /\ [](\A t \in BucketTasks :
            (tbTask[t].pc = "idle" /\ tbTask[t].ret = "Ok"
             /\ tbTask[t].avail < tbTask[t].need /\ ~tbTask[t].refunded)
                => WaitedForDeficit(t))

\* An acquire that found less than it needed has slept, nobody refunding,
\* and has returned Ok at the instant its sleep ended.
C22_ReturnedAfterItsSleep ==
    \E t \in BucketTasks :
        /\ tbTask[t].pc = "idle" /\ tbTask[t].ret = "Ok"
        /\ tbTask[t].avail < tbTask[t].need /\ ~tbTask[t].refunded
        /\ tbTask[t].attempts = 1
        /\ now = tbTask[t].wake /\ now > tbTask[t].called

\* C23. The pacer's current_rate is within [min_rate, max_rate] at
\* construction and after every sequence of update_from_headers calls, and
\* get_rate has never returned a value outside that interval.
C23_RateWithinBounds ==
    /\ limiter.min_rate <= limiter.current_rate
    /\ limiter.current_rate <= limiter.max_rate
    /\ limiter.got # NoValue =>
          limiter.min_rate <= limiter.got /\ limiter.got <= limiter.max_rate

\* Headers that suggest more than max_rate have been taken, and get_rate has
\* returned max_rate.
C23_ClampedAtMaxRate ==
    /\ limiter.suggested > limiter.max_rate
    /\ limiter.current_rate = limiter.max_rate
    /\ limiter.got = limiter.max_rate

\* C24. attach_item_ids_to_json panics whenever the length of the payload's
\* input array differs from the number of original items, leaving every
\* element of the payload as it was; when it does not panic, an element whose
\* id was written carries the id of the original item at its own position.
C24_MismatchPanicsUntouched ==
    (app.f = "attach_item_ids_to_json" /\ app.done) =>
        LET before == app.payload_json
            after == app.out.payload
        IN  /\ (before.input = "array" /\ Len(before.items) # Len(app.original_items))
                  => app.out.panicked /\ after = before
            /\ ~app.out.panicked =>
                  /\ after.input = before.input
                  /\ Len(after.items) = Len(before.items)
                  /\ \A i \in 1..Len(after.items) :
                        after.items[i] # before.items[i] =>
                            /\ i <= Len(app.original_items)
                            /\ after.items[i].id = extract_item_id(app.original_items[i])
                            /\ after.items[i].id.some /\ after.items[i].id.s # ""

\* Three-against-two, as in the test: an array longer than the items, whose
\* first items carry ids, and the call has panicked.
C24_PanickedOnLongerArray ==
    /\ app.f = "attach_item_ids_to_json" /\ app.done
    /\ app.payload_json.input = "array"
    /\ Len(app.payload_json.items) > Len(app.original_items)
    /\ Len(app.original_items) > 0
    /\ app.original_items[1].id = SomeId("msg-1")
    /\ app.payload_json.items[1] = JsonObject(NoId)
    /\ app.out.panicked

\* The number of '?' in a string
QuestionMarks(s) == Cardinality({i \in 1..Len(s) : s[i] = "?"})

\* base_path (trailing '/' trimmed) + '/' + S (leading '/' trimmed) + '?' + Q,
\* then the explicit parameters, encoded, in one of their orders.
UrlByTheRule(a) ==
    LET head == trim_end_matches(a.base_path, "/") \o <<"/">>
                  \o trim_start_matches(a.path, "/") \o <<"?">> \o a.query
    IN  IF a.query_params.some /\ a.query_params.entries # {}
        THEN {head \o <<"&">>
                \o join([i \in 1..Len(o) |-> encode(o[i].k) \o <<"=">> \o encode(o[i].v)],
                        <<"&">>) : o \in Orders(a.query_params.entries)}
        ELSE {head}

\* C25. For a base URL base_path?Q and a non-empty path or suffix S,
\* url_for_path and build_azure_url return base_path without its trailing
\* '/', then '/', then S without its leading '/', then '?' and Q, then the
\* explicit query_params joined by '&'; the result holds exactly one '?'.
C25_SuffixBeforeQuery ==
    (app.f \in {"url_for_path", "build_azure_url"} /\ app.done /\ app.has_query
     /\ app.path # <<>>)
        => app.out \in UrlByTheRule(app) /\ QuestionMarks(app.out) = 1

\* The same for the inputs the test has: a query that is not empty and holds
\* no '?', a path that holds a character other than '/' and no '?', a base
\* path that does not end in two slashes.
PlainUrlInputs ==
    /\ app.query # <<>> /\ QuestionMarks(app.query) = 0
    /\ trim_start_matches(app.path, "/") # <<>> /\ QuestionMarks(app.path) = 0
    /\ ~(Len(app.base_path) >= 2 /\ SubSeq(app.base_path, Len(app.base_path) - 1,
                                          Len(app.base_path)) = <<"/", "/">>)

SuffixBeforeQueryOnPlainInputs ==
    (app.f \in {"url_for_path", "build_azure_url"} /\ app.done /\ app.has_query
     /\ PlainUrlInputs)
        => app.out \in UrlByTheRule(app) /\ QuestionMarks(app.out) = 1

\* The lower-cased host ends with one of the Azure suffixes.
HostIsAzure(host) ==
    \E suffix \in AZURE_DOMAIN_SUFFIXES : ends_with(to_ascii_lowercase(host), suffix)

\* C26. For a URL that parses, is_azure_base_url is true exactly when the
\* lower-cased host ends with one of the seven Azure suffixes, whatever the
\* user information, port, path and query are; hosts on azurewebsites.net,
\* azurefd.net, azure-api.net and blob.core.windows.net are not Azure.
C26_AzureByHostOnly ==
    (app.f = "is_azure_base_url" /\ app.done) =>
        /\ app.scheme # <<>> => (app.out <=> HostIsAzure(app.host))
        /\ (app.scheme # <<>> /\ app.host \in ProxyHosts) => ~app.out
        /\ LET url == Url_parse(UrlText(app)) IN
           url.ok => (app.out <=> (url.host.some /\ HostIsAzure(url.host.s)))

\* A proxy on azurewebsites.net whose path names an Azure OpenAI host has
\* been classified as not Azure.
C26_ProxyWithAzurePath ==
    /\ app.f = "is_azure_base_url" /\ app.done
    /\ app.scheme # <<>>
    /\ ends_with(app.host, <<".", "n", "e", "t">>) /\ app.host \in ProxyHosts
    /\ contains(app.tail, OPENAI_AZURE)
    /\ ~app.out

\* C27. run_with_retry invokes op at most max_attempts + 1 times, the k-th
\* invocation with attempt number k - 1, after exactly one make_req of its
\* own, and never again after an invocation that returned Ok.
C27_AttemptsInOrder ==
    /\ Len(rt.passed) = rt.calls
    /\ rt.calls <= rt.policy.max_attempts + 1
    /\ \A i \in 1..Len(rt.passed) : rt.passed[i].attempt = i - 1
    /\ \A i \in 1..(Len(rt.passed) - 1) : ~rt.passed[i].outcome.ok
    /\ rt.made = rt.calls + (IF rt.pc = "op" THEN 1 ELSE 0)
    /\ rt.pc = "op" => rt.attempt = rt.calls
    /\ (rt.calls > 0 /\ rt.passed[rt.calls].outcome.ok) => rt.pc = "done"

\* max_attempts + 1 invocations, the last of which returned Ok.
C27_OkAtLastAttempt ==
    /\ rt.pc = "done"
    /\ rt.calls = MaxRetryAttempts + 1
    /\ rt.passed[rt.calls].outcome.ok
    /\ rt.result.ok

\* C28. When op fails with an error for which should_retry is false,
\* run_with_retry returns that error on the same step, without a sleep and
\* without another attempt; a sleep is only begun when an attempt is left,
\* so every sleep lies between two attempts.
C28_RefusedErrorReturnedAtOnce ==
    /\ \A i \in 1..Len(rt.passed) :
          LET o == rt.passed[i].outcome IN
          (~o.ok /\ ~should_retry(rt.policy.retry_on, o.err, rt.passed[i].attempt,
                                  rt.policy.max_attempts))
              => /\ i = Len(rt.passed)
                 /\ rt.pc = "done"
                 /\ rt.result = o
                 /\ rt.sleeps = i - 1
    /\ rt.pc = "sleep" => rt.attempt < rt.policy.max_attempts
    /\ rt.pc = "done" => rt.sleeps = rt.calls - 1

\* A 429 was retried after a sleep, and the 500 that followed, retry_5xx
\* being unset and an attempt being left, was returned.
C28_ServerErrorNotRetried ==
    /\ rt.pc = "done"
    /\ ~rt.policy.retry_on.retry_5xx
    /\ rt.calls = 2 /\ rt.policy.max_attempts = 2
    /\ rt.sleeps = 1
    /\ rt.result = [ok |-> FALSE, err |-> [kind |-> "Http", status |-> 500]]

\* Every acquire returns Ok or Err.
AcquireReturns ==
    \A t \in BucketTasks :
        (tbTask[t].pc \in {"refill", "check", "sleep"})
            ~> (tbTask[t].pc = "idle" /\ tbTask[t].ret \in {"Ok", "Err"})

\* A step of a task's acquire that lowers the level returns Ok: an acquire
\* that returns Err has debited nothing.
ErrDebitsNothing ==
    \A t \in BucketTasks :
        (tbTask[t].pc \in {"refill", "check", "sleep"} /\ tbTask'[t] # tbTask[t])
            => /\ tb'.tokens < tb.tokens => tbTask'[t].ret = "Ok"
               /\ tbTask'[t].ret = "Err" => tb' = tb

\* acquire has waited at most MAX_ATTEMPTS times, and has returned Err only
\* after that many waits.
WaitsBounded ==
    \A t \in BucketTasks :
        /\ tbTask[t].attempts <= MAX_ATTEMPTS
        /\ tbTask[t].pc = "sleep" => tbTask[t].attempts < MAX_ATTEMPTS
        /\ (tbTask[t].pc = "idle" /\ tbTask[t].ret = "Err")
              => tbTask[t].attempts = MAX_ATTEMPTS

\* C29. TokenBucket.acquire always returns: after at most MAX_ATTEMPTS waits
\* it returns Err instead of waiting again, whatever it asks of whatever
\* bucket and whoever competes, and an acquire that returns Err has debited
\* nothing.
C29_AcquireAlwaysReturns ==
    /\ AcquireReturns
    /\ []WaitsBounded
    /\ [][ErrDebitsNothing]_vars

\* The same on the buckets that refill.
AcquireReturnsWhenRefilling ==
    /\ \A t \in BucketTasks :
          (tb.refill_rate > 0 /\ tbTask[t].pc \in {"refill", "check", "sleep"})
              ~> (tbTask[t].pc = "idle" /\ tbTask[t].ret \in {"Ok", "Err"})
    /\ []WaitsBounded
    /\ [][ErrDebitsNothing]_vars

\* What a step grants: the need of the task whose acquire returns Ok on it.
GrantedByStep ==
    IF \E t \in BucketTasks :
          tbTask[t].pc = "check" /\ tbTask'[t].pc = "idle" /\ tbTask'[t].ret = "Ok"
    THEN (LET t == CHOOSE t \in BucketTasks :
                     tbTask[t].pc = "check" /\ tbTask'[t].pc = "idle"
                     /\ tbTask'[t].ret = "Ok"
          IN  tbTask[t].need)
    ELSE 0

\* What a step credits: the refill accrued at a refill step, the amount of
\* a refund.
CreditedByStep ==
    IF \E t \in BucketTasks :
          \/ tbTask[t].pc = "refill" /\ tbTask'[t].pc = "check"
          \/ tbTask[t].pc = "idle" /\ tbTask'[t].pc = "read"
    THEN (now - tb.last_refill) * tb.refill_rate
    ELSE IF tbTask' = tbTask /\ now' = now /\ tbLast'.op = "refund"
    THEN Max(tbLast'.arg, 0)
    ELSE 0

\* C30. With tasks calling acquire, refund, force_debit and available_tokens
\* on one bucket in any interleaving, a grant of n is made only at a level of
\* at least n and lowers it by n on the same step; the level is never
\* negative, and on every step the level plus what the step grants is at most
\* the old level plus what the step credits, so that the total granted never
\* exceeds the initial level plus the refill and the refunds.
C30_GrantsWithinCredits ==
    /\ [](tb.tokens >= 0)
    /\ [][/\ GrantedByStep > 0 =>
                tb.tokens >= GrantedByStep /\ tb'.tokens = tb.tokens - GrantedByStep
          /\ tb'.tokens + GrantedByStep <= tb.tokens + CreditedByStep]_vars

\* Two acquirers at once: one has been granted its tokens, the other, for
\* which the level does not suffice, sleeps.
C30_OneGrantedOneWaiting ==
    \E t1, t2 \in BucketTasks :
        /\ t1 # t2
        /\ tbTask[t1].pc = "idle" /\ tbTask[t1].ret = "Ok" /\ tbTask[t1].need > 0
        /\ tbTask[t2].pc = "sleep" /\ tb.tokens < tbTask[t2].need
        /\ tbTask[t2].need <= tb.capacity

\* C31. A call that has passed the capacity pre-check asks its token bucket
\* for no more than the bucket's capacity: while acquire is in
\* token_bucket.acquire(estimated_tokens), estimated_tokens <= capacity of
\* that bucket.
C31_PrecheckedFitsBucket ==
    \A t \in CoordTasks :
        (co[t].pc \in {"check", "sleep"} /\ acquire_order[co[t].phase] = "tok")
            => co[t].est <= buckets[co[t].tok].capacity

\* The same while no response has raised the hint's limit above the
\* configured one.
PrecheckedFitsWhileNotRaised ==
    \A t \in CoordTasks :
        (co[t].pc \in {"check", "sleep"} /\ acquire_order[co[t].phase] = "tok"
         /\ \A h \in Hints : model_limits[h].tokens_per_minute
                               <= buckets[co[t].tok].capacity)
            => co[t].est <= buckets[co[t].tok].capacity


\* C32. A successful acquire debits the buckets registered for its key: every
\* debit that TokenBucket::acquire makes for a call lands on the bucket that
\* the map holds for the call's key at that moment, also when a response has
\* replaced the bucket since the call looked it up.
C32_DebitLandsOnRegistered ==
    [][\A t \in CoordTasks :
          /\ co'[t].tokDebit > co[t].tokDebit => co[t].tok = token_buckets[co[t].dep]
          /\ co'[t].reqDebit > co[t].reqDebit => co[t].req = request_buckets[co[t].dep]]_vars

\* Short of a replacement of the call's token bucket the debit is on the
\* registered one: the clone and the map entry are one bucket.
DebitLandsUnlessReplaced ==
    [][\A t \in CoordTasks :
          /\ (co'[t].tokDebit > co[t].tokDebit /\ resizes = 0)
                => co[t].tok = token_buckets[co[t].dep]
          /\ co'[t].reqDebit > co[t].reqDebit => co[t].req = request_buckets[co[t].dep]]_vars

\* What a map holds for a key: the bucket and its state.
entry(heap, map, k) ==
    [slot |-> map[k], state |-> IF map[k] = 0 THEN Dropped ELSE heap[map[k]]]

\* A step of update_from_response: no caller moves, no time passes and no
\* outcome is reported.
ResponseStep == co' = co /\ now' = now /\ inflight' = inflight /\ cb' = cb

ResponseForKeyWithoutBucket ==
    /\ resp.pc = "resizeTok" /\ resp.lt # NoValue
    /\ resp.ctx.bucket_key \in Keys
    /\ token_buckets[resp.ctx.bucket_key] = 0

\* The rate the headers ask for: clamp(remaining / reset, min_rate, max_rate)
\* when both are supplied, reset > 0 and the clamped value is more than 0.1
\* away from the current rate; the current rate otherwise.
rate_asked(l, remaining_requests, reset_after_seconds) ==
    IF remaining_requests # NoValue /\ reset_after_seconds # NoValue
       /\ reset_after_seconds > 0
    THEN LET c == clamp((remaining_requests * PerSecond) \div reset_after_seconds,
                        l.min_rate, l.max_rate)
         IN IF abs(c - l.current_rate) * 10 > PerSecond THEN c ELSE l.current_rate
    ELSE l.current_rate

\* C34.  update_from_headers changes current_rate only when remaining_requests
\* and a reset of more than 0 seconds are both supplied and the clamped
\* remaining / reset is more than 0.1 away from the current rate, and the rate
\* is then exactly the clamped value; remaining_tokens alone, or a missing or
\* zero reset, leaves the rate.
C34_RateFollowsHeaders ==
    [][\A rr \in RemainingRequests, tk \in RemainingTokens, rs \in ResetSeconds :
          UpdateFromHeaders(rr, tk, rs) =>
              limiter'.current_rate = rate_asked(limiter, rr, rs)]_vars

\* The same for the resets that an Instant can hold.
RateFollowsHeadersInRange ==
    [][\A rr \in RemainingRequests, tk \in RemainingTokens, rs \in ResetSeconds :
          (UpdateFromHeaders(rr, tk, rs) /\ ~InstantOverflows(now, rs)) =>
              limiter'.current_rate = rate_asked(limiter, rr, rs)]_vars

\* C35.  In every reachable state of a breaker whose thresholds are at least
\* 1: Closed implies failure_count < failure_threshold, and HalfOpen implies
\* success_count < success_threshold.
C35_CountsBelowThresholds ==
    /\ cb.state = "Closed" => cb.failure_count < cb.failure_threshold
    /\ cb.state = "HalfOpen" => cb.success_count < cb.success_threshold

\* The breaker has been closed again by the successes of a trial that
\* followed an opening.
C35_ClosedAgainAfterTrial ==
    /\ cbLast.op = "record_success" /\ cbLast.from = "HalfOpen"
    /\ cbLast.before.failure_count >= cb.failure_threshold
    /\ cb.state = "Closed"

\* C36.  While the breaker is Open, record_success and record_failure leave
\* the state, until, failure_count and success_count as they are, also when
\* the cool-down has elapsed and no is_allowed has observed it: a failure
\* during Open does not extend the cool-down.
C36_OpenIgnoresOutcomes ==
    [][((RecordSuccess \/ RecordFailure) /\ cb.state = "Open") => cb' = cb]_vars

\* A failure has been recorded on an Open breaker after its cool-down had
\* elapsed, unobserved; the breaker is still Open until the same instant.
C36_FailureAfterElapsedCoolDown ==
    /\ cbLast.op = "record_failure" /\ cbLast.from = "Open"
    /\ cb.state = "Open" /\ cb.timeout > 0
    /\ cbLast.at >= cb.until
    /\ cb.until = cbLast.before.until

\* An order of the mutexes that every call follows.
mutex_order ==
    <<"last_context", "token_buckets", "request_buckets", "model_limits",
      "token.last_refill", "token.tokens", "request.last_refill", "request.tokens",
      "state", "success_count", "failure_count",
      "current_rate", "remaining_requests", "remaining_tokens", "reset_time">>

rank(m) == CHOOSE i \in 1..Len(mutex_order) : mutex_order[i] = m

held(t) == {m \in Mutexes : mu.owner[m] = t}

\* The task waits for a mutex that a task of S holds.
waits_on(t, S) ==
    /\ at(t).do = "lock"
    /\ mu.owner[at(t).m] \in S

\* C37.  No interleaving of acquire, acquire_for_deployment,
\* update_from_response, reconcile_after_completed, record_success,
\* record_failure and get_status on one coordinator deadlocks: no set of
\* calls is ever waiting on mutexes held within the set, every mutex is taken
\* after those that come before it in one order, and a call that sleeps
\* holds no mutex.
C37_NoDeadlock ==
    /\ \A S \in (SUBSET LockTasks) \ {{}} : ~(\A t \in S : waits_on(t, S))
    /\ \A t \in LockTasks :
          at(t).do = "lock" => \A h \in held(t) : rank(h) < rank(at(t).m)
    /\ \A t \in LockTasks : at(t).do = "sleep" => held(t) = {}

\* update_from_response, holding last_context and the token map, waits for
\* the last_refill of the token bucket, which another call holds during its
\* refill.
C37_ResizeWaitsForRefill ==
    \E t \in LockTasks, u \in LockTasks :
        /\ mu.task[t].call = "update_from_response"
        /\ held(t) = {"last_context", "token_buckets"}
        /\ at(t) = [do |-> "lock", m |-> "token.last_refill"]
        /\ mu.owner["token.last_refill"] = u /\ u # t
        /\ mu.task[u].call \in {"acquire", "acquire_for_deployment"}

\* C38.  get_response, get_response_input_items and delete_response send at
\* most max_retries + 1 requests: the call sleeps and goes round only after a
\* 429, a 5xx or a send error met at an attempt <= max_retries, and any other
\* non-success status ends the call on the spot with an AzureError that
\* carries the status, the code, the message and the request id.
C38_BoundedRetries ==
    app.f \in AzureOps =>
        /\ app.sent <= app.max_retries + 1
        /\ app.slept <= app.max_retries
        /\ app.pc = "sleep" =>
              /\ app.attempt <= app.max_retries
              /\ \/ app.last.kind = "send_error"
                 \/ app.last.kind = "response"
                    /\ (app.last.status = 429 \/ is_server_error(app.last.status))
        /\ (app.last.kind = "response" /\ ~is_success(app.last.status)
            /\ app.last.status # 429 /\ ~is_server_error(app.last.status)) =>
              /\ app.pc = "returned"
              /\ app.result.kind = "Err" /\ app.result.err = "Azure"
              /\ app.result.azure.status = app.last.status
              /\ app.result.azure.request_id = app.last.request_id
              /\ app.result.azure.code =
                    (IF app.last.body.json /\ app.last.body.code.some
                     THEN app.last.body.code.s ELSE "unknown")
              /\ app.result.azure.message =
                    (IF app.last.body.json /\ app.last.body.message.some
                     THEN app.last.body.message.s ELSE app.last.body.text)

\* A call has used all its retries on 429 / 5xx responses and send errors
\* and has returned the AzureError of the last response, max_retries + 1
\* requests sent.
C38_RetriesUsedUp ==
    /\ app.f \in AzureOps /\ app.pc = "returned"
    /\ app.max_retries = MaxRequestRetries
    /\ app.sent = app.max_retries + 1 /\ app.slept = app.max_retries
    /\ app.result.kind = "Err" /\ app.result.err = "Azure"
    /\ app.result.azure.status = 429

\* The requests of a sequence in the order they were enqueued.
in_order(seq) == \A i, j \in DOMAIN seq : i < j => seq[i] < seq[j]
only(seq, S) == SelectSeq(seq, LAMBDA r : r \in S)
returned_requests == Range(pq.out)

\* What a dequeue that nothing overlaps returns for the requests queued when
\* it is called: the oldest of high priority, else the oldest, else None.
first_of(queued) ==
    LET hi == queued \cap pq.high IN
    IF hi # {} THEN CHOOSE r \in hi : \A o \in hi : r <= o
    ELSE IF queued # {} THEN CHOOSE r \in queued : \A o \in queued : r <= o
    ELSE NoRequest

\* For the requests queued when dequeue is called: the order of the returns
\* within a priority is the order of the enqueues, no request is returned
\* twice or lost, a dequeue that no other call overlaps returns the first
\* request of the queue it found (None if there was none), and one that is
\* overlapped returns a normal-priority request, or None, only when every
\* high-priority request (every request) queued at its call has been
\* returned.
DequeueServesQueuedAtCall ==
    /\ in_order(only(pq.out, pq.high))
    /\ in_order(only(pq.out, (1..MaxRequests) \ pq.high))
    /\ in_order(pq.q.high_priority) /\ in_order(pq.q.normal_priority)
    /\ Range(pq.q.high_priority) \subseteq pq.high
    /\ Range(pq.q.normal_priority) \cap pq.high = {}
    /\ Len(pq.out) + Len(pq.q.high_priority) + Len(pq.q.normal_priority) = pq.next - 1
    /\ returned_requests \cup Range(pq.q.high_priority) \cup Range(pq.q.normal_priority)
          = 1..(pq.next - 1)
    /\ \A t \in QueueTasks :
          LET d == pq.task[t] IN
          (d.pc = "idle" /\ d.ret >= 0) =>
              /\ d.alone => d.ret = first_of(d.queued)
              /\ d.ret = NoRequest => d.queued \subseteq returned_requests
              /\ (d.ret # NoRequest /\ d.ret \notin pq.high) =>
                    (d.queued \cap pq.high) \subseteq returned_requests

\* A dequeue has returned a normal-priority request while a high-priority
\* request that was enqueued before it is queued.
DequeueOvertakenByEnqueue ==
    \E t \in QueueTasks :
        /\ pq.task[t].pc = "idle" /\ pq.task[t].ret > 0
        /\ pq.task[t].ret \notin pq.high
        /\ pq.q.high_priority # <<>>
        /\ Head(pq.q.high_priority) < pq.task[t].ret

\* C39.  dequeue returns every queued high-priority request before any
\* normal-priority one and, within a priority, in the order of the enqueues;
\* it returns None exactly when both queues are empty; no request is returned
\* twice or lost.  In particular no dequeue returns a normal-priority request
\* while a high-priority request enqueued before that one is queued.
C39_PriorityThenFifo == DequeueServesQueuedAtCall /\ ~DequeueOvertakenByEnqueue

\* Requests of both priorities were queued, a normal one first; the
\* dequeues have returned the high-priority ones, then the normal one, and
\* the last dequeue None.
HighThenNormalThenNone ==
    /\ pq.next > MaxRequests
    /\ 1 \notin pq.high /\ pq.high = {2, 3}
    /\ pq.out = <<2, 3, 1>>
    /\ \E t \in QueueTasks :
          pq.task[t].pc = "idle" /\ pq.task[t].ret = NoRequest /\ pq.task[t].alone


CancelledAfterCompletion ==
    /\ app.f = "handle_mcp_tool_call" /\ app.pc = "returned"
    /\ app.raced /\ app.branch = "call_tool" /\ app.output.result = app.tool
=============================================================================
